---- MODULE Spec2Model ----
(***************************************************************************)
(* Model of the K-line parsing and technical-indicator code of the         *)
(* real-time-stock MCP service:                                            *)
(*   src/src/mcp_tools/kline_data.py   parse_kline_data, calculate_ma,     *)
(*                                     calculate_ema, calculate_macd,      *)
(*                                     calculate_rsi, calculate_kdj        *)
(*   src/src/stock_data_source.py      WebCrawlerDataSource                *)
(*                                                                         *)
(* Numbers.  A Python float is modelled as a fixed-point decimal: the      *)
(* integer v stands for v / Scale.  Sums and differences are exact; every  *)
(* product and quotient is rounded to the nearest unit, ties to even, the  *)
(* way every float operation rounds to the nearest double.  round(x, 2)    *)
(* rounds to the nearest multiple of Scale / 100, ties to even.            *)
(*                                                                         *)
(* Strings are sequences of one-character strings, so that split(",") and  *)
(* float()/int() are computed, not assumed.                                *)
(*                                                                         *)
(* None is the empty sequence <<>>, a defined number v is <<v>>.           *)
(***************************************************************************)
EXTENDS Integers, Sequences, FiniteSets, TLC

VARIABLES
    klines,   \* the raw records the upstream feed answered with (List[str])
    bars,     \* the bars parse_kline_data makes of them (List[Dict])
    column,   \* a column with defined and undefined entries (List[Optional[float]])
    request_code, \* the security code a caller asks for (str)
    pc,       \* "idle": no call in progress; "done": a call has returned
    op,       \* the call that returned last: its name and arguments
    out,      \* what that call returned, or the exception it raised
    default_periods, \* the list object that is the default of calculate_rsi's periods
    remembered, \* a call a caller has kept the result of, to compare a later one with
    spider,   \* WebCrawlerDataSource.spider: "None" or "EastMoneyKlineSpider"
    searcher, \* WebCrawlerDataSource.searcher: "None" or "StockSearcher"
    lifecycle, \* "constructed", "initialized" once initialize() has returned True,
              \* "cleaned up" after cleanup() until initialize() returns True again
    entry,    \* the entry point that runs: "sse" (stock_mcp/sse.py) or "mcp_server"
    active,   \* the class of active_data_source
    secondary, \* HybridDataSource.secondary: "None" or "TushareDataSource"
    tushare_pro, \* TushareDataSource.pro: "None" or "pro_api"
    process,  \* where the entry point stands, how its run ended, the handler of
              \* SIGTERM, the calls of cleanup() so far, what it raised
    asked,    \* the sources the data source asked during its last call, in order
    headers   \* RealTimeDataSpider.headers (a dict from header names to values)

vars ==
    <<klines, bars, column, request_code, pc, op, out, default_periods, remembered,
      spider, searcher, lifecycle,
      entry, active, secondary, tushare_pro, process, asked, headers>>

\* the state of a running server
serving == <<entry, active, secondary, tushare_pro, process, asked, headers>>

\* the state that is outside the calls of the parsers, the indicator
\* functions and the code functions
outside ==
    <<default_periods, remembered, spider, searcher, lifecycle,
      entry, active, secondary, tushare_pro, process, asked, headers>>


\* dict.update: the keys of u are set in d
update(d, u) ==
    [k \in DOMAIN d \cup DOMAIN u |-> IF k \in DOMAIN u THEN u[k] ELSE d[k]]

\* EastMoneyBaseSpider.DEFAULT_HEADERS
DEFAULT_HEADERS ==
    [k \in {"Accept", "Accept-Language", "Connection", "User-Agent"} |->
        CASE k = "Accept" -> "application/json, text/plain, */*"
          [] k = "Accept-Language" -> "zh-CN,zh;q=0.9,en;q=0.8"
          [] k = "Connection" -> "keep-alive"
          [] k = "User-Agent" -> "Mozilla/5.0"]

\* self.headers after RealTimeDataSpider(): a copy of DEFAULT_HEADERS with
\* the headers of xueqiu.com set
RealTimeDataSpider_headers ==
    update(DEFAULT_HEADERS,
           [k \in {"Referer", "Host", "Cookie"} |->
               CASE k = "Referer" -> "https://xueqiu.com/"
                 [] k = "Host" -> "stock.xueqiu.com"
                 [] k = "Cookie" -> "cookiesu=931764842715080; ..."])

\* no server runs: the state of the specifications that call the functions
\* and the data source directly
NotServing ==
    /\ entry = "none"
    /\ active = "none"
    /\ secondary = "None"
    /\ tushare_pro = "None"
    /\ process = [at |-> "none", ending |-> "none", handler |-> "SIG_DFL",
                  cleanups |-> 0, raised |-> "None"]
    /\ asked = <<>>
    /\ headers = RealTimeDataSpider_headers

----------------------------------------------------------------------------
(* Fixed-point arithmetic                                                   *)

\* units per 1.0: three decimals, one more than round(x, 2) keeps
Scale == 10 * 100

None == <<>>
Some(v) == <<v>>
IsNone(x) == x = <<>>
Val(x) == x[1]

\* a / b rounded to the nearest integer, ties to even (b # 0)
DivPos(a, b) ==
    LET q == a \div b
        r == a % b
    IN  IF 2 * r < b THEN q
        ELSE IF 2 * r > b THEN q + 1
        ELSE IF q % 2 = 0 THEN q ELSE q + 1

Div(a, b) == IF b > 0 THEN DivPos(a, b) ELSE DivPos(-a, -b)

\* x * y of two fixed-point numbers
Mul(x, y) == Div(x * y, Scale)

\* x / y of two fixed-point numbers
Quot(x, y) == Div(x * Scale, y)

\* round(x, 2)
Round2(x) == Div(x, Scale \div 100) * (Scale \div 100)

RECURSIVE SumSeq(_)
SumSeq(s) == IF s = <<>> THEN 0 ELSE Head(s) + SumSeq(Tail(s))

RECURSIVE MaxSeq(_)
MaxSeq(s) ==
    IF Len(s) = 1 THEN s[1]
    ELSE LET m == MaxSeq(Tail(s)) IN IF s[1] >= m THEN s[1] ELSE m

RECURSIVE MinSeq(_)
MinSeq(s) ==
    IF Len(s) = 1 THEN s[1]
    ELSE LET m == MinSeq(Tail(s)) IN IF s[1] <= m THEN s[1] ELSE m

\* Python's s[a:b] on a list of length n, with 0-based a and b: a negative
\* bound counts from the end, and both are clipped to 0..n
PyIndex(k, n) == IF k < 0 THEN (IF k + n < 0 THEN 0 ELSE k + n) ELSE (IF k > n THEN n ELSE k)

Slice(s, a, b) ==
    LET lo == PyIndex(a, Len(s))
        hi == PyIndex(b, Len(s))
    IN  IF lo >= hi THEN <<>> ELSE SubSeq(s, lo + 1, hi)

----------------------------------------------------------------------------
(* Strings: str.split(","), float(), int()                                  *)

Digits == <<"0", "1", "2", "3", "4", "5", "6", "7", "8", "9">>

DigitChars == {Digits[i] : i \in 1..10}

DigitOf(c) == (CHOOSE i \in 1..10 : Digits[i] = c) - 1

AllDigits(s) == \A i \in 1..Len(s) : s[i] \in DigitChars

RECURSIVE DigitsValue(_)
DigitsValue(s) ==
    IF s = <<>> THEN 0
    ELSE 10 * DigitsValue(SubSeq(s, 1, Len(s) - 1)) + DigitOf(s[Len(s)])

RECURSIVE Pow10(_)
Pow10(k) == IF k = 0 THEN 1 ELSE 10 * Pow10(k - 1)

\* 0 when c does not occur in s, otherwise the position of its first occurrence
FirstPos(s, c) ==
    IF \E i \in 1..Len(s) : s[i] = c
    THEN CHOOSE i \in 1..Len(s) : s[i] = c /\ \A j \in 1..(i - 1) : s[j] # c
    ELSE 0

\* kline.split(","): the fields between the commas; no comma gives one field
RECURSIVE Split(_)
Split(s) ==
    LET k == FirstPos(s, ",")
    IN  IF k = 0 THEN <<s>>
        ELSE <<SubSeq(s, 1, k - 1)>> \o Split(SubSeq(s, k + 1, Len(s)))

\* float(s) for plain decimal notation [sign] digits [. digits]; everything
\* else raises ValueError (ok = FALSE).  The value is in fixed-point units.
ParseFloat(s) ==
    LET signed == Len(s) > 0 /\ s[1] \in {"-", "+"}
        body   == IF signed THEN Tail(s) ELSE s
        dot    == FirstPos(body, ".")
        ip     == IF dot = 0 THEN body ELSE SubSeq(body, 1, dot - 1)
        fp     == IF dot = 0 THEN <<>> ELSE SubSeq(body, dot + 1, Len(body))
        valid  == AllDigits(ip) /\ AllDigits(fp) /\ Len(ip) + Len(fp) > 0
        mag    == DigitsValue(ip) * Scale + Div(DigitsValue(fp) * Scale, Pow10(Len(fp)))
    IN  IF ~valid THEN [ok |-> FALSE, v |-> 0]
        ELSE [ok |-> TRUE, v |-> IF signed /\ s[1] = "-" THEN -mag ELSE mag]

\* int(s) for [sign] digits; everything else raises ValueError (ok = FALSE)
ParseInt(s) ==
    LET signed == Len(s) > 0 /\ s[1] \in {"-", "+"}
        body   == IF signed THEN Tail(s) ELSE s
        valid  == AllDigits(body) /\ Len(body) > 0
        mag    == DigitsValue(body)
    IN  IF ~valid THEN [ok |-> FALSE, v |-> 0]
        ELSE [ok |-> TRUE, v |-> IF signed /\ s[1] = "-" THEN -mag ELSE mag]

----------------------------------------------------------------------------
(* src/src/mcp_tools/kline_data.py                                          *)

\* the dict built from one record's fields (0-based fields[k] is f[k + 1]):
\* number[k] is float(f[k]), and int(f[6]) for the volume; ok is FALSE when
\* one of them raises ValueError
kline_dict(f) ==
    LET dict(number) ==
            [ok             |-> \A k \in 2..11 : number[k].ok,
             date           |-> f[1],
             open           |-> number[2].v,
             close          |-> number[3].v,
             high           |-> number[4].v,
             low            |-> number[5].v,
             volume         |-> number[6].v,
             amount         |-> number[7].v,
             amplitude      |-> number[8].v,
             change_percent |-> number[9].v,
             change_amount  |-> number[10].v,
             turnover_rate  |-> number[11].v]
    IN  dict([k \in 2..11 |-> IF k = 6 THEN ParseInt(f[k]) ELSE ParseFloat(f[k])])

HasElevenFields(f) == Len(f) >= 11

BarOf(d) ==
    [date |-> d.date, open |-> d.open, close |-> d.close, high |-> d.high,
     low |-> d.low, volume |-> d.volume, amount |-> d.amount,
     amplitude |-> d.amplitude, change_percent |-> d.change_percent,
     change_amount |-> d.change_amount, turnover_rate |-> d.turnover_rate]

\* parse_kline_data: records with fewer than 11 fields are skipped; a field
\* that does not convert raises ValueError out of the function
parse_kline_data(ks) ==
    LET result(dicts) ==
            IF \E i \in 1..Len(dicts) : ~dicts[i].ok
            THEN [exc |-> "ValueError", val |-> <<>>]
            ELSE [exc |-> "None", val |-> [i \in 1..Len(dicts) |-> BarOf(dicts[i])]]
        parsed(kept) == result([i \in 1..Len(kept) |-> kline_dict(kept[i])])
    IN  parsed(SelectSeq([i \in 1..Len(ks) |-> Split(ks[i])], HasElevenFields))

\* calculate_ma with the sum rounded before the division instead of the mean
calculate_ma_round_first(data, period) ==
    [k \in 1..Len(data) |->
        LET idx == k - 1
        IN  IF idx < period - 1 THEN None
            ELSE Some(Div(Round2(SumSeq(Slice(data, idx - period + 1, idx + 1))), period))]

\* calculate_ma (period >= 1); idx is the 0-based index i of the source
calculate_ma(data, period) ==
    [k \in 1..Len(data) |->
        LET idx == k - 1
        IN  IF idx < period - 1 THEN None
            ELSE Some(Round2(Div(SumSeq(Slice(data, idx - period + 1, idx + 1)), period)))]

\* the loop of calculate_ema from 1-based position k on, ema being the value
\* carried so far
RECURSIVE ema_loop(_, _, _, _)
ema_loop(data, k, ema, multiplier) ==
    IF k > Len(data) THEN <<>>
    ELSE IF ~IsNone(data[k])
         THEN LET e == Mul(Val(data[k]) - Val(ema), multiplier) + Val(ema)
              IN  <<Some(e)>> \o ema_loop(data, k + 1, Some(e), multiplier)
         ELSE <<None>> \o ema_loop(data, k + 1, ema, multiplier)

\* calculate_ema seeded with the mean of the first period entries (an
\* undefined entry counting as 0) and undefined before the seed
calculate_ema_sma_seed(data, period) ==
    LET multiplier == Div(2 * Scale, period + 1)
        n          == Len(data)
        first_vals == [k \in 1..period |-> IF IsNone(data[k]) THEN 0 ELSE Val(data[k])]
        seed       == Some(Div(SumSeq(first_vals), period))
    IN  IF n < period THEN [k \in 1..n |-> None]
        ELSE [k \in 1..(period - 1) |-> None] \o <<seed>>
                 \o ema_loop(data, period + 1, seed, multiplier)

\* calculate_ema (period >= 0)
calculate_ema(data, period) ==
    LET multiplier == Div(2 * Scale, period + 1)
        defined    == {k \in 1..Len(data) : ~IsNone(data[k])}
        first      == IF defined = {} THEN 0
                      ELSE CHOOSE k \in defined : \A j \in defined : k <= j
        start_idx  == IF first = 0 THEN 0 ELSE first - 1
        ema        == IF first = 0 THEN None ELSE data[first]
    IN  [k \in 1..start_idx |-> None] \o <<ema>>
            \o ema_loop(data, start_idx + 2, ema, multiplier)

Lift(xs) == [k \in 1..Len(xs) |-> Some(xs[k])]

RoundOpt(x) == IF IsNone(x) THEN None ELSE Some(Round2(Val(x)))

\* calculate_macd with DIF left undefined during the first slow - 1 bars
calculate_macd_warm_up(closes, fast, slow, dea_period) ==
    LET macd_bar(dif, dea) ==
            [k \in 1..Len(closes) |->
                IF ~IsNone(dif[k]) /\ ~IsNone(dea[k])
                THEN Some(Round2(2 * (Val(dif[k]) - Val(dea[k]))))
                ELSE None]
        result(ema_fast, ema_slow, dif, dea) ==
            [DIF  |-> [k \in 1..Len(dif) |-> RoundOpt(dif[k])],
             DEA  |-> [k \in 1..Len(dea) |-> RoundOpt(dea[k])],
             MACD |-> macd_bar(dif, dea),
             ema_fast |-> ema_fast, ema_slow |-> ema_slow, dif |-> dif, dea |-> dea]
        smoothed(ema_fast, ema_slow, dif) ==
            result(ema_fast, ema_slow, dif, calculate_ema(dif, dea_period))
        subtracted(ema_fast, ema_slow) ==
            smoothed(ema_fast, ema_slow,
                     [k \in 1..Len(closes) |->
                         IF k >= slow THEN Some(Val(ema_fast[k]) - Val(ema_slow[k]))
                         ELSE None])
    IN  subtracted(calculate_ema(Lift(closes), fast), calculate_ema(Lift(closes), slow))

\* calculate_macd with the histogram computed from the rounded DIF and DEA
calculate_macd_rounded_first(closes, fast, slow, dea_period) ==
    LET macd_bar(dif, dea) ==
            [k \in 1..Len(closes) |->
                Some(Round2(2 * (Round2(Val(dif[k])) - Round2(Val(dea[k])))))]
        result(ema_fast, ema_slow, dif, dea) ==
            [DIF  |-> [k \in 1..Len(dif) |-> RoundOpt(dif[k])],
             DEA  |-> [k \in 1..Len(dea) |-> RoundOpt(dea[k])],
             MACD |-> macd_bar(dif, dea),
             ema_fast |-> ema_fast, ema_slow |-> ema_slow, dif |-> dif, dea |-> dea]
        smoothed(ema_fast, ema_slow, dif) ==
            result(ema_fast, ema_slow, dif, calculate_ema(dif, dea_period))
        subtracted(ema_fast, ema_slow) ==
            smoothed(ema_fast, ema_slow,
                     [k \in 1..Len(closes) |->
                         Some(Val(ema_fast[k]) - Val(ema_slow[k]))])
    IN  subtracted(calculate_ema(Lift(closes), fast), calculate_ema(Lift(closes), slow))

\* calculate_macd; dif and dea are the unrounded local lists
calculate_macd(closes, fast, slow, dea_period) ==
    LET macd_bar(dif, dea) ==
            [k \in 1..Len(closes) |->
                IF ~IsNone(dif[k]) /\ ~IsNone(dea[k])
                THEN Some(Round2(2 * (Val(dif[k]) - Val(dea[k]))))
                ELSE None]
        result(ema_fast, ema_slow, dif, dea) ==
            [DIF  |-> [k \in 1..Len(dif) |-> RoundOpt(dif[k])],
             DEA  |-> [k \in 1..Len(dea) |-> RoundOpt(dea[k])],
             MACD |-> macd_bar(dif, dea),
             ema_fast |-> ema_fast, ema_slow |-> ema_slow, dif |-> dif, dea |-> dea]
        smoothed(ema_fast, ema_slow, dif) ==
            result(ema_fast, ema_slow, dif, calculate_ema(dif, dea_period))
        subtracted(ema_fast, ema_slow) ==
            smoothed(ema_fast, ema_slow,
                     [k \in 1..Len(closes) |->
                         IF ~IsNone(ema_fast[k]) /\ ~IsNone(ema_slow[k])
                         THEN Some(Val(ema_fast[k]) - Val(ema_slow[k]))
                         ELSE None])
    IN  IF Len(closes) = 0
        THEN [DIF |-> <<>>, DEA |-> <<>>, MACD |-> <<>>,
              ema_fast |-> <<>>, ema_slow |-> <<>>, dif |-> <<>>, dea |-> <<>>]
        ELSE subtracted(calculate_ema(Lift(closes), fast), calculate_ema(Lift(closes), slow))

\* the RSI of one pair of averages with a zero avg_loss replaced by the
\* smallest positive number instead of being answered with 100.0
rsi_of_epsilon(avg_gain, avg_loss) ==
    LET l   == IF avg_loss = 0 THEN 1 ELSE avg_loss
        rs  == Quot(avg_gain, l)
        rsi == 100 * Scale - Quot(100 * Scale, Scale + rs)
    IN  Round2(rsi)

\* the RSI of one pair of averages taken as 100 * rs, the relative strength
\* itself, without the 100 - 100 / (1 + rs) that bounds it
rsi_of_unbounded(avg_gain, avg_loss) ==
    IF avg_loss = 0 THEN 100 * Scale
    ELSE Round2(100 * Quot(avg_gain, avg_loss))

\* the RSI of one pair of averages: 100.0 when avg_loss == 0, otherwise
\* round(100 - (100 / (1 + rs)), 2) with rs = avg_gain / avg_loss
rsi_of(avg_gain, avg_loss) ==
    IF avg_loss = 0 THEN 100 * Scale
    ELSE LET rs  == Quot(avg_gain, avg_loss)
             rsi == 100 * Scale - Quot(100 * Scale, Scale + rs)
         IN  Round2(rsi)

\* the Wilder loop of calculate_rsi from 1-based position k on; every entry
\* is the triple of rsi_values[i] and the avg_gain, avg_loss it came from
RECURSIVE rsi_loop(_, _, _, _, _, _)
rsi_loop(gains, losses, period, k, avg_gain, avg_loss) ==
    IF k > Len(gains) THEN <<>>
    ELSE LET g == Div(avg_gain * (period - 1) + gains[k], period)
             l == Div(avg_loss * (period - 1) + losses[k], period)
         IN  <<[rsi |-> Some(rsi_of(g, l)), avg_gain |-> Some(g), avg_loss |-> Some(l)]>>
                 \o rsi_loop(gains, losses, period, k + 1, g, l)

NoRsi == [rsi |-> None, avg_gain |-> None, avg_loss |-> None]

\* the body of calculate_rsi's loop over periods with the first average
\* taken over gains[0:period] and placed at index period - 1
rsi_period_one_early(closes, gains, losses, period) ==
    LET n == Len(closes)
        first(avg_gain, avg_loss) ==
            [k \in 1..(period - 1) |-> NoRsi]
                \o <<[rsi |-> Some(rsi_of(avg_gain, avg_loss)),
                      avg_gain |-> Some(avg_gain), avg_loss |-> Some(avg_loss)]>>
                \o rsi_loop(gains, losses, period, period + 1, avg_gain, avg_loss)
    IN  IF period <= 0 \/ n <= period THEN [k \in 1..n |-> NoRsi]
        ELSE first(Div(SumSeq(Slice(gains, 0, period)), period),
                   Div(SumSeq(Slice(losses, 0, period)), period))

\* the body of calculate_rsi's loop over periods, for one period
rsi_period(closes, gains, losses, period) ==
    LET n == Len(closes)
        first(avg_gain, avg_loss) ==
            [k \in 1..period |-> NoRsi]
                \o <<[rsi |-> Some(rsi_of(avg_gain, avg_loss)),
                      avg_gain |-> Some(avg_gain), avg_loss |-> Some(avg_loss)]>>
                \o rsi_loop(gains, losses, period, period + 2, avg_gain, avg_loss)
    IN  IF period <= 0 \/ n <= period THEN [k \in 1..n |-> NoRsi]
        ELSE first(Div(SumSeq(Slice(gains, 1, period + 1)), period),
                   Div(SumSeq(Slice(losses, 1, period + 1)), period))

\* calculate_rsi: the dict "rsi<period>" -> column is the function rsi on
\* the periods of the list; avg_gain and avg_loss are the local averages
\* each entry was computed from
calculate_rsi(closes, periods) ==
    LET n      == Len(closes)
        keys   == {periods[i] : i \in 1..Len(periods)}
        change(k) == closes[k] - closes[k - 1]
        gains  == [k \in 1..n |-> IF k = 1 THEN 0
                                  ELSE IF change(k) > 0 THEN change(k) ELSE 0]
        losses == [k \in 1..n |-> IF k = 1 THEN 0
                                  ELSE IF change(k) > 0 THEN 0 ELSE -change(k)]
        result(rows) ==
            [rsi      |-> [p \in keys |-> [k \in 1..Len(rows[p]) |-> rows[p][k].rsi]],
             avg_gain |-> [p \in keys |-> [k \in 1..Len(rows[p]) |-> rows[p][k].avg_gain]],
             avg_loss |-> [p \in keys |-> [k \in 1..Len(rows[p]) |-> rows[p][k].avg_loss]]]
    IN  IF n = 0
        THEN [rsi |-> [p \in keys |-> <<>>], avg_gain |-> [p \in keys |-> <<>>],
              avg_loss |-> [p \in keys |-> <<>>]]
        ELSE result([p \in keys |-> rsi_period(closes, gains, losses, p)])

\* the RSV loop of calculate_kdj answering a flat window with 0
kdj_rsv_list_flat_zero(highs, lows, closes, period) ==
    [k \in 1..Len(closes) |->
        LET idx == k - 1
        IN  IF idx < period - 1 THEN None
            ELSE LET period_high == MaxSeq(Slice(highs, idx - period + 1, idx + 1))
                     period_low  == MinSeq(Slice(lows, idx - period + 1, idx + 1))
                 IN  IF period_high = period_low THEN Some(0)
                     ELSE Some(Quot(closes[k] - period_low, period_high - period_low) * 100)]

\* the RSV loop of calculate_kdj (period >= 1)
kdj_rsv_list(highs, lows, closes, period) ==
    [k \in 1..Len(closes) |->
        LET idx == k - 1
        IN  IF idx < period - 1 THEN None
            ELSE LET period_high == MaxSeq(Slice(highs, idx - period + 1, idx + 1))
                     period_low  == MinSeq(Slice(lows, idx - period + 1, idx + 1))
                 IN  IF period_high = period_low THEN Some(50 * Scale)
                     ELSE Some(Quot(closes[k] - period_low, period_high - period_low) * 100)]

\* the K loop of calculate_kdj from position i on, k being the unrounded
\* value carried so far
RECURSIVE kdj_k_loop(_, _, _, _)
kdj_k_loop(rsv_list, i, k, k_period) ==
    IF i > Len(rsv_list) THEN <<>>
    ELSE IF IsNone(rsv_list[i]) THEN <<None>> \o kdj_k_loop(rsv_list, i + 1, k, k_period)
    ELSE LET k2 == Div(k * (k_period - 1) + Val(rsv_list[i]), k_period)
         IN  <<Some(Round2(k2))>> \o kdj_k_loop(rsv_list, i + 1, k2, k_period)

\* the D loop of calculate_kdj, fed with the rounded k_values
RECURSIVE kdj_d_loop(_, _, _, _)
kdj_d_loop(k_values, i, d, d_period) ==
    IF i > Len(k_values) THEN <<>>
    ELSE IF IsNone(k_values[i]) THEN <<None>> \o kdj_d_loop(k_values, i + 1, d, d_period)
    ELSE LET d2 == Div(d * (d_period - 1) + Val(k_values[i]), d_period)
         IN  <<Some(Round2(d2))>> \o kdj_d_loop(k_values, i + 1, d2, d_period)

\* calculate_kdj with K seeded at the first RSV instead of 50
calculate_kdj_rsv_seed(highs, lows, closes, period, k_period, d_period) ==
    LET j_values(k_values, d_values) ==
            [i \in 1..Len(k_values) |->
                IF IsNone(k_values[i]) \/ IsNone(d_values[i]) THEN None
                ELSE Some(Round2(3 * Val(k_values[i]) - 2 * Val(d_values[i])))]
        result(rsv_list, k_values, d_values) ==
            [k |-> k_values, d |-> d_values, j |-> j_values(k_values, d_values),
             rsv_list |-> rsv_list]
        smoothed(rsv_list, k_values) ==
            result(rsv_list, k_values, kdj_d_loop(k_values, 1, 50 * Scale, d_period))
        windowed(rsv_list) ==
            smoothed(rsv_list,
                     kdj_k_loop(rsv_list, 1,
                                IF period >= 1 /\ Len(rsv_list) >= period
                                THEN Val(rsv_list[period]) ELSE 50 * Scale,
                                k_period))
    IN  windowed(kdj_rsv_list(highs, lows, closes, period))

\* calculate_kdj; rsv_list is the local list K is smoothed from
calculate_kdj(highs, lows, closes, period, k_period, d_period) ==
    LET j_values(k_values, d_values) ==
            [i \in 1..Len(k_values) |->
                IF IsNone(k_values[i]) \/ IsNone(d_values[i]) THEN None
                ELSE Some(Round2(3 * Val(k_values[i]) - 2 * Val(d_values[i])))]
        result(rsv_list, k_values, d_values) ==
            [k |-> k_values, d |-> d_values, j |-> j_values(k_values, d_values),
             rsv_list |-> rsv_list]
        smoothed(rsv_list, k_values) ==
            result(rsv_list, k_values, kdj_d_loop(k_values, 1, 50 * Scale, d_period))
        windowed(rsv_list) ==
            smoothed(rsv_list, kdj_k_loop(rsv_list, 1, 50 * Scale, k_period))
    IN  windowed(kdj_rsv_list(highs, lows, closes, period))

----------------------------------------------------------------------------
(* src/src/stock_data_source.py: the private copies of the indicator        *)
(* functions that WebCrawlerDataSource carries                              *)

\* _calculate_ma without the None entries of the warm-up window
_calculate_ma_defined_only(data, period) ==
    [k \in 1..(IF Len(data) >= period THEN Len(data) - period + 1 ELSE 0) |->
        Some(Round2(Div(SumSeq(SubSeq(data, k, k + period - 1)), period)))]

\* WebCrawlerDataSource._calculate_ma (period >= 1); idx is the 0-based index i of the source
_calculate_ma(data, period) ==
    [k \in 1..Len(data) |->
        LET idx == k - 1
        IN  IF idx < period - 1 THEN None
            ELSE Some(Round2(Div(SumSeq(Slice(data, idx - period + 1, idx + 1)), period)))]

\* the loop of WebCrawlerDataSource._calculate_ema from 1-based position k on, ema being the value
\* carried so far
RECURSIVE _ema_loop(_, _, _, _)
_ema_loop(data, k, ema, multiplier) ==
    IF k > Len(data) THEN <<>>
    ELSE IF ~IsNone(data[k])
         THEN LET e == Mul(Val(data[k]) - Val(ema), multiplier) + Val(ema)
              IN  <<Some(e)>> \o _ema_loop(data, k + 1, Some(e), multiplier)
         ELSE <<None>> \o _ema_loop(data, k + 1, ema, multiplier)

\* WebCrawlerDataSource._calculate_ema (period >= 0)
_calculate_ema(data, period) ==
    LET multiplier == Div(2 * Scale, period + 1)
        defined    == {k \in 1..Len(data) : ~IsNone(data[k])}
        first      == IF defined = {} THEN 0
                      ELSE CHOOSE k \in defined : \A j \in defined : k <= j
        start_idx  == IF first = 0 THEN 0 ELSE first - 1
        ema        == IF first = 0 THEN None ELSE data[first]
    IN  [k \in 1..start_idx |-> None] \o <<ema>>
            \o _ema_loop(data, start_idx + 2, ema, multiplier)

\* _calculate_macd as a copy that has drifted from calculate_macd: the bar
\* taken from the rounded DIF and DEA
_calculate_macd_drifted(closes, fast, slow, dea_period) ==
    calculate_macd_rounded_first(closes, fast, slow, dea_period)

\* WebCrawlerDataSource._calculate_macd; dif and dea are the unrounded local lists
_calculate_macd(closes, fast, slow, dea_period) ==
    LET macd_bar(dif, dea) ==
            [k \in 1..Len(closes) |->
                IF ~IsNone(dif[k]) /\ ~IsNone(dea[k])
                THEN Some(Round2(2 * (Val(dif[k]) - Val(dea[k]))))
                ELSE None]
        result(ema_fast, ema_slow, dif, dea) ==
            [DIF  |-> [k \in 1..Len(dif) |-> RoundOpt(dif[k])],
             DEA  |-> [k \in 1..Len(dea) |-> RoundOpt(dea[k])],
             MACD |-> macd_bar(dif, dea),
             ema_fast |-> ema_fast, ema_slow |-> ema_slow, dif |-> dif, dea |-> dea]
        smoothed(ema_fast, ema_slow, dif) ==
            result(ema_fast, ema_slow, dif, _calculate_ema(dif, dea_period))
        subtracted(ema_fast, ema_slow) ==
            smoothed(ema_fast, ema_slow,
                     [k \in 1..Len(closes) |->
                         IF ~IsNone(ema_fast[k]) /\ ~IsNone(ema_slow[k])
                         THEN Some(Val(ema_fast[k]) - Val(ema_slow[k]))
                         ELSE None])
    IN  IF Len(closes) = 0
        THEN [DIF |-> <<>>, DEA |-> <<>>, MACD |-> <<>>,
              ema_fast |-> <<>>, ema_slow |-> <<>>, dif |-> <<>>, dea |-> <<>>]
        ELSE subtracted(_calculate_ema(Lift(closes), fast), _calculate_ema(Lift(closes), slow))

\* the RSI of one pair of averages: 100.0 when avg_loss == 0, otherwise
\* round(100 - (100 / (1 + rs)), 2) with rs = avg_gain / avg_loss
_rsi_of(avg_gain, avg_loss) ==
    IF avg_loss = 0 THEN 100 * Scale
    ELSE LET rs  == Quot(avg_gain, avg_loss)
             rsi == 100 * Scale - Quot(100 * Scale, Scale + rs)
         IN  Round2(rsi)

\* the Wilder loop of WebCrawlerDataSource._calculate_rsi from 1-based position k on; every entry
\* is the triple of rsi_values[i] and the avg_gain, avg_loss it came from
RECURSIVE _rsi_loop(_, _, _, _, _, _)
_rsi_loop(gains, losses, period, k, avg_gain, avg_loss) ==
    IF k > Len(gains) THEN <<>>
    ELSE LET g == Div(avg_gain * (period - 1) + gains[k], period)
             l == Div(avg_loss * (period - 1) + losses[k], period)
         IN  <<[rsi |-> Some(_rsi_of(g, l)), avg_gain |-> Some(g), avg_loss |-> Some(l)]>>
                 \o _rsi_loop(gains, losses, period, k + 1, g, l)

\* the body of WebCrawlerDataSource._calculate_rsi's loop over periods, for one period
_rsi_period(closes, gains, losses, period) ==
    LET n == Len(closes)
        first(avg_gain, avg_loss) ==
            [k \in 1..period |-> NoRsi]
                \o <<[rsi |-> Some(_rsi_of(avg_gain, avg_loss)),
                      avg_gain |-> Some(avg_gain), avg_loss |-> Some(avg_loss)]>>
                \o _rsi_loop(gains, losses, period, period + 2, avg_gain, avg_loss)
    IN  IF period <= 0 \/ n <= period THEN [k \in 1..n |-> NoRsi]
        ELSE first(Div(SumSeq(Slice(gains, 1, period + 1)), period),
                   Div(SumSeq(Slice(losses, 1, period + 1)), period))

\* WebCrawlerDataSource._calculate_rsi: the dict "rsi<period>" -> column is the function rsi on
\* the periods of the list; avg_gain and avg_loss are the local averages
\* each entry was computed from
_calculate_rsi(closes, periods) ==
    LET n      == Len(closes)
        keys   == {periods[i] : i \in 1..Len(periods)}
        change(k) == closes[k] - closes[k - 1]
        gains  == [k \in 1..n |-> IF k = 1 THEN 0
                                  ELSE IF change(k) > 0 THEN change(k) ELSE 0]
        losses == [k \in 1..n |-> IF k = 1 THEN 0
                                  ELSE IF change(k) > 0 THEN 0 ELSE -change(k)]
        result(rows) ==
            [rsi      |-> [p \in keys |-> [k \in 1..Len(rows[p]) |-> rows[p][k].rsi]],
             avg_gain |-> [p \in keys |-> [k \in 1..Len(rows[p]) |-> rows[p][k].avg_gain]],
             avg_loss |-> [p \in keys |-> [k \in 1..Len(rows[p]) |-> rows[p][k].avg_loss]]]
    IN  IF n = 0
        THEN [rsi |-> [p \in keys |-> <<>>], avg_gain |-> [p \in keys |-> <<>>],
              avg_loss |-> [p \in keys |-> <<>>]]
        ELSE result([p \in keys |-> _rsi_period(closes, gains, losses, p)])

\* the RSV loop of WebCrawlerDataSource._calculate_kdj (period >= 1)
_kdj_rsv_list(highs, lows, closes, period) ==
    [k \in 1..Len(closes) |->
        LET idx == k - 1
        IN  IF idx < period - 1 THEN None
            ELSE LET period_high == MaxSeq(Slice(highs, idx - period + 1, idx + 1))
                     period_low  == MinSeq(Slice(lows, idx - period + 1, idx + 1))
                 IN  IF period_high = period_low THEN Some(50 * Scale)
                     ELSE Some(Quot(closes[k] - period_low, period_high - period_low) * 100)]

\* the K loop of WebCrawlerDataSource._calculate_kdj from position i on, k being the unrounded
\* value carried so far
RECURSIVE _kdj_k_loop(_, _, _, _)
_kdj_k_loop(rsv_list, i, k, k_period) ==
    IF i > Len(rsv_list) THEN <<>>
    ELSE IF IsNone(rsv_list[i]) THEN <<None>> \o _kdj_k_loop(rsv_list, i + 1, k, k_period)
    ELSE LET k2 == Div(k * (k_period - 1) + Val(rsv_list[i]), k_period)
         IN  <<Some(Round2(k2))>> \o _kdj_k_loop(rsv_list, i + 1, k2, k_period)

\* the D loop of WebCrawlerDataSource._calculate_kdj, fed with the rounded k_values
RECURSIVE _kdj_d_loop(_, _, _, _)
_kdj_d_loop(k_values, i, d, d_period) ==
    IF i > Len(k_values) THEN <<>>
    ELSE IF IsNone(k_values[i]) THEN <<None>> \o _kdj_d_loop(k_values, i + 1, d, d_period)
    ELSE LET d2 == Div(d * (d_period - 1) + Val(k_values[i]), d_period)
         IN  <<Some(Round2(d2))>> \o _kdj_d_loop(k_values, i + 1, d2, d_period)

\* WebCrawlerDataSource._calculate_kdj; rsv_list is the local list K is smoothed from
_calculate_kdj(highs, lows, closes, period, k_period, d_period) ==
    LET j_values(k_values, d_values) ==
            [i \in 1..Len(k_values) |->
                IF IsNone(k_values[i]) \/ IsNone(d_values[i]) THEN None
                ELSE Some(Round2(3 * Val(k_values[i]) - 2 * Val(d_values[i])))]
        result(rsv_list, k_values, d_values) ==
            [k |-> k_values, d |-> d_values, j |-> j_values(k_values, d_values),
             rsv_list |-> rsv_list]
        smoothed(rsv_list, k_values) ==
            result(rsv_list, k_values, _kdj_d_loop(k_values, 1, 50 * Scale, d_period))
        windowed(rsv_list) ==
            smoothed(rsv_list, _kdj_k_loop(rsv_list, 1, 50 * Scale, k_period))
    IN  windowed(_kdj_rsv_list(highs, lows, closes, period))

\* the dict get_historical_k_data builds from one record's fields
k_data_dict(f) ==
    LET dict(number) ==
            [ok             |-> \A k \in 2..11 : number[k].ok,
             date           |-> f[1],
             open           |-> number[2].v,
             close          |-> number[3].v,
             high           |-> number[4].v,
             low            |-> number[5].v,
             volume         |-> number[6].v,
             amount         |-> number[7].v,
             amplitude      |-> number[8].v,
             change_percent |-> number[9].v,
             change_amount  |-> number[10].v,
             turnover_rate  |-> number[11].v]
    IN  dict([k \in 2..11 |-> IF k = 6 THEN ParseInt(f[k]) ELSE ParseFloat(f[k])])

Raise(e) == [exc |-> e, val |-> <<>>]

Return(v) == [exc |-> "None", val |-> v]

\* WebCrawlerDataSource.get_historical_k_data, from the answer ks of
\* self.spider.get_k_history_data on: an empty answer raises
\* NoDataFoundError, short records are skipped, and a ValueError of float()
\* or int() is caught and raised again as DataSourceError
get_historical_k_data(ks) ==
    LET result(dicts) ==
            IF \E i \in 1..Len(dicts) : ~dicts[i].ok THEN Raise("DataSourceError")
            ELSE Return([i \in 1..Len(dicts) |-> BarOf(dicts[i])])
        parsed(kept) == result([i \in 1..Len(kept) |-> k_data_dict(kept[i])])
    IN  IF ks = <<>> THEN Raise("NoDataFoundError")
        ELSE parsed(SelectSeq([i \in 1..Len(ks) |-> Split(ks[i])], HasElevenFields))

\* the lists get_technical_indicators computes before it combines them
indicator_columns(k_data) ==
    LET closes == [i \in 1..Len(k_data) |-> k_data[i].close]
        highs  == [i \in 1..Len(k_data) |-> k_data[i].high]
        lows   == [i \in 1..Len(k_data) |-> k_data[i].low]
        lists(macd_data, rsi_data, kdj_data) ==
            [ma5   |-> _calculate_ma(closes, 5),
             ma10  |-> _calculate_ma(closes, 10),
             ma20  |-> _calculate_ma(closes, 20),
             ma60  |-> _calculate_ma(closes, 60),
             DIF   |-> macd_data.DIF,
             DEA   |-> macd_data.DEA,
             MACD  |-> macd_data.MACD,
             rsi6  |-> rsi_data.rsi[6],
             rsi12 |-> rsi_data.rsi[12],
             rsi24 |-> rsi_data.rsi[24],
             k     |-> kdj_data.k,
             d     |-> kdj_data.d,
             j     |-> kdj_data.j]
    IN  lists(_calculate_macd(closes, 12, 26, 9),
              _calculate_rsi(closes, <<6, 12, 24>>),
              _calculate_kdj(highs, lows, closes, 9, 3, 3))

ColumnNames ==
    {"ma5", "ma10", "ma20", "ma60", "DIF", "DEA", "MACD", "rsi6", "rsi12", "rsi24",
     "k", "d", "j"}

\* WebCrawlerDataSource.get_technical_indicators, from the answer ks of the
\* spider on.  An exception of get_historical_k_data propagates; no bar
\* raises NoDataFoundError; an IndexError of reading a column at a bar's
\* index is caught and raised again as DataSourceError.  columns holds the
\* local lists the points were read from.
get_technical_indicators(ks) ==
    LET points(k_data, cols) ==
            IF \E c \in ColumnNames : Len(cols[c]) < Len(k_data)
            THEN [exc |-> "DataSourceError", val |-> <<>>, columns |-> cols]
            ELSE [exc |-> "None",
                  val |-> [i \in 1..Len(k_data) |->
                              [date     |-> k_data[i].date,
                               ma5      |-> cols.ma5[i],
                               ma10     |-> cols.ma10[i],
                               ma20     |-> cols.ma20[i],
                               ma60     |-> cols.ma60[i],
                               macd_dif |-> cols.DIF[i],
                               macd_dea |-> cols.DEA[i],
                               macd_bar |-> cols.MACD[i],
                               rsi6     |-> cols.rsi6[i],
                               rsi12    |-> cols.rsi12[i],
                               rsi24    |-> cols.rsi24[i],
                               kdj_k    |-> cols.k[i],
                               kdj_d    |-> cols.d[i],
                               kdj_j    |-> cols.j[i]]],
                  columns |-> cols]
        answered(hist) ==
            IF hist.exc # "None" THEN [exc |-> hist.exc, val |-> <<>>, columns |-> <<>>]
            ELSE IF hist.val = <<>>
                 THEN [exc |-> "NoDataFoundError", val |-> <<>>, columns |-> <<>>]
            ELSE points(hist.val, indicator_columns(hist.val))
    IN  answered(get_historical_k_data(ks))

----------------------------------------------------------------------------
(* src/src/mcp_tools/kline_data.py: the tool get_technical_indicators       *)

\* the characters of a date in the order Python compares them
DateChars == <<"-", "0", "1", "2", "3", "4", "5", "6", "7", "8", "9">>

\* a <= b for two strings of DateChars, as Python compares strings
RECURSIVE StrLeq(_, _)
StrLeq(a, b) ==
    IF a = <<>> THEN TRUE
    ELSE IF b = <<>> THEN FALSE
    ELSE IF a[1] = b[1] THEN StrLeq(Tail(a), Tail(b))
    ELSE (CHOOSE k \in 1..11 : DateChars[k] = a[1]) < (CHOOSE k \in 1..11 : DateChars[k] = b[1])

\* the lists the tool computes from k_data before it writes its table
tool_indicator_lists(k_data) ==
    LET closes == [i \in 1..Len(k_data) |-> k_data[i].close]
        highs  == [i \in 1..Len(k_data) |-> k_data[i].high]
        lows   == [i \in 1..Len(k_data) |-> k_data[i].low]
        lists(macd_data, rsi_data, kdj_data) ==
            [ma5   |-> calculate_ma(closes, 5),
             ma10  |-> calculate_ma(closes, 10),
             ma20  |-> calculate_ma(closes, 20),
             ma60  |-> calculate_ma(closes, 60),
             DIF   |-> macd_data.DIF,
             DEA   |-> macd_data.DEA,
             MACD  |-> macd_data.MACD,
             rsi6  |-> rsi_data.rsi[6],
             rsi12 |-> rsi_data.rsi[12],
             rsi24 |-> rsi_data.rsi[24],
             k     |-> kdj_data.k,
             d     |-> kdj_data.d,
             j     |-> kdj_data.j]
    IN  lists(calculate_macd(closes, 12, 26, 9),
              calculate_rsi(closes, <<6, 12, 24>>),
              calculate_kdj(highs, lows, closes, 9, 3, 3))

\* The tool get_technical_indicators, from the answer raw_klines of the data
\* source on, a list of bar records as parse_kline_data reads them.  The
\* tool raises nothing: it returns a text, which val names ("not found",
\* "failed" for an exception caught, "table"); rows holds the values the
\* table is written from.  series holds the bar list the lists were
\* computed from, in a tuple of its own, and is empty when they were not
\* computed; columns holds the lists.
get_technical_indicators_tool(raw_klines, start_date) ==
    LET table(k_data, filtered, cols) ==
            [exc  |-> "None",
             val  |-> "table",
             rows |-> [i \in 1..Len(filtered) |->
                          LET idx == i + (Len(k_data) - Len(filtered))
                          IN  [date  |-> filtered[i].date,
                               ma5   |-> cols.ma5[idx],
                               ma10  |-> cols.ma10[idx],
                               ma20  |-> cols.ma20[idx],
                               ma60  |-> cols.ma60[idx],
                               DIF   |-> cols.DIF[idx],
                               DEA   |-> cols.DEA[idx],
                               MACD  |-> cols.MACD[idx],
                               rsi6  |-> cols.rsi6[idx],
                               rsi12 |-> cols.rsi12[idx],
                               rsi24 |-> cols.rsi24[idx],
                               k     |-> cols.k[idx],
                               d     |-> cols.d[idx],
                               j     |-> cols.j[idx]]],
             series  |-> <<k_data>>,
             columns |-> cols]
        FromStart(item) == StrLeq(start_date, item.date)
        parsed(p) ==
            IF p.exc # "None"
            THEN [exc |-> "None", val |-> "failed", rows |-> <<>>, series |-> <<>>,
                  columns |-> <<>>]
            ELSE table(p.val, SelectSeq(p.val, FromStart), tool_indicator_lists(p.val))
    IN  IF raw_klines = <<>>
        THEN [exc |-> "None", val |-> "not found", rows |-> <<>>, series |-> <<>>,
              columns |-> <<>>]
        ELSE parsed(parse_kline_data(raw_klines))

----------------------------------------------------------------------------
(* Security codes: src/src/crawler/base_crawler.py,                         *)
(* src/src/crawler_tools/clawler.py, src/src/stock_mcp/crawler/real_time_data.py *)

Lowercase ==
    <<"a", "b", "c", "d", "e", "f", "g", "h", "i", "j", "k", "l", "m",
      "n", "o", "p", "q", "r", "s", "t", "u", "v", "w", "x", "y", "z">>

Uppercase ==
    <<"A", "B", "C", "D", "E", "F", "G", "H", "I", "J", "K", "L", "M",
      "N", "O", "P", "Q", "R", "S", "T", "U", "V", "W", "X", "Y", "Z">>

Whitespace == {" ", "\t", "\n", "\r"}

\* str.upper()
upper(s) ==
    [i \in 1..Len(s) |->
        IF \E k \in 1..26 : Lowercase[k] = s[i]
        THEN Uppercase[CHOOSE k \in 1..26 : Lowercase[k] = s[i]]
        ELSE s[i]]

\* str.strip(): without the whitespace at both ends
strip(s) ==
    LET kept(keep) ==
            IF keep = {} THEN <<>>
            ELSE SubSeq(s, CHOOSE i \in keep : \A j \in keep : i <= j,
                           CHOOSE i \in keep : \A j \in keep : i >= j)
    IN  kept({i \in 1..Len(s) : s[i] \notin Whitespace})

\* str.isdigit(): at least one character and every character a digit
isdigit(s) == Len(s) > 0 /\ AllDigits(s)

\* str.startswith(prefix)
startswith(s, prefix) == Len(s) >= Len(prefix) /\ SubSeq(s, 1, Len(prefix)) = prefix

\* "." in code
HasDot(code) == FirstPos(code, ".") # 0

\* code.split(".", maxsplit=1), for a code that holds a dot
left_of(code) == SubSeq(code, 1, FirstPos(code, ".") - 1)

right_of(code) == SubSeq(code, FirstPos(code, ".") + 1, Len(code))

\* EastMoneyBaseSpider.format_secid accepting a suffix only after digits
format_secid_digits_before_suffix(stock_code) ==
    LET digits(code) ==
            IF isdigit(code)
            THEN Return((IF code[1] = "6" THEN <<"1">> ELSE <<"0">>) \o <<".">> \o code)
            ELSE Raise("ValueError")
        dotted(code, left, right) ==
            IF left \in {<<"0">>, <<"1">>} /\ isdigit(right)
            THEN Return(left \o <<".">> \o right)
            ELSE IF right \in {<<"S", "Z">>, <<"S", "H">>} /\ isdigit(left)
                 THEN Return((IF right = <<"S", "Z">> THEN <<"0">> ELSE <<"1">>)
                                 \o <<".">> \o left)
            ELSE digits(code)
        parsed(code) ==
            IF HasDot(code) THEN dotted(code, left_of(code), right_of(code))
            ELSE digits(code)
    IN  parsed(upper(strip(stock_code)))

\* EastMoneyBaseSpider.format_secid with the suffix compared as it is typed
format_secid_case_sensitive(stock_code) ==
    LET digits(code) ==
            IF isdigit(code)
            THEN Return((IF code[1] = "6" THEN <<"1">> ELSE <<"0">>) \o <<".">> \o code)
            ELSE Raise("ValueError")
        dotted(code, left, right) ==
            IF left \in {<<"0">>, <<"1">>} /\ isdigit(right)
            THEN Return(left \o <<".">> \o right)
            ELSE IF right \in {<<"S", "Z">>, <<"S", "H">>}
                 THEN Return((IF right = <<"S", "Z">> THEN <<"0">> ELSE <<"1">>)
                                 \o <<".">> \o left)
            ELSE digits(code)
        parsed(code) ==
            IF HasDot(code) THEN dotted(code, left_of(code), right_of(code))
            ELSE digits(code)
    IN  parsed(strip(stock_code))

\* EastMoneyBaseSpider.format_secid; ValueError when no form is recognized
format_secid(stock_code) ==
    LET digits(code) ==
            IF isdigit(code)
            THEN Return((IF code[1] = "6" THEN <<"1">> ELSE <<"0">>) \o <<".">> \o code)
            ELSE Raise("ValueError")
        dotted(code, left, right) ==
            IF left \in {<<"0">>, <<"1">>} /\ isdigit(right)
            THEN Return(left \o <<".">> \o right)
            ELSE IF right \in {<<"S", "Z">>, <<"S", "H">>}
                 THEN Return((IF right = <<"S", "Z">> THEN <<"0">> ELSE <<"1">>)
                                 \o <<".">> \o left)
            ELSE digits(code)
        parsed(code) ==
            IF HasDot(code) THEN dotted(code, left_of(code), right_of(code))
            ELSE digits(code)
    IN  parsed(upper(strip(stock_code)))

\* EastMoneyKlineSpider._format_secid: the code is stripped, not upper-cased,
\* and a code in secid form is returned as it is
_format_secid(stock_codes) ==
    LET digits(code) ==
            IF isdigit(code)
            THEN Return((IF code[1] = "6" THEN <<"1">> ELSE <<"0">>) \o <<".">> \o code)
            ELSE Raise("ValueError")
        dotted(code, left, market_suffix, right) ==
            IF left \in {<<"0">>, <<"1">>} /\ isdigit(right) THEN Return(code)
            ELSE IF market_suffix \in {<<"S", "Z">>, <<"S", "H">>}
                 THEN Return((IF market_suffix = <<"S", "Z">> THEN <<"0">> ELSE <<"1">>)
                                 \o <<".">> \o left)
            ELSE digits(code)
        parsed(code) ==
            IF HasDot(code)
            THEN dotted(code, left_of(code), upper(right_of(code)), right_of(code))
            ELSE digits(code)
    IN  parsed(strip(stock_codes))

\* RealTimeDataSpider._add_exchange_prefix; it raises nothing
_add_exchange_prefix(symbol) ==
    IF startswith(symbol, <<"S", "H">>) \/ startswith(symbol, <<"S", "Z">>)
    THEN Return(symbol)
    ELSE IF isdigit(symbol) /\ Len(symbol) = 5 THEN Return(symbol)
    ELSE IF isdigit(symbol) /\ symbol[1] = "6" THEN Return(<<"S", "H">> \o symbol)
    ELSE IF isdigit(symbol) /\ symbol[1] \in {"0", "3"} THEN Return(<<"S", "Z">> \o symbol)
    ELSE Return(symbol)

----------------------------------------------------------------------------
(* The upstream feed: the text of the records                               *)
(* src/src/crawler_tools/clawler.py, get_k_history_data: every element of   *)
(* "klines" is one line of eleven comma-separated fields, f51 .. f61        *)

RECURSIVE FormatNat(_)
FormatNat(n) == IF n < 10 THEN <<Digits[n + 1]>> ELSE FormatNat(n \div 10) \o <<Digits[(n % 10) + 1]>>

TwoDigits(n) == <<Digits[(n \div 10) + 1], Digits[(n % 10) + 1]>>

\* a price of c cents as the feed writes it, "10.50"
FormatCents(c) == FormatNat(c \div 100) \o <<".">> \o TwoDigits(c % 100)

\* the k-th trading day as the feed writes it, "2024-01-02"
FormatDate(k) ==
    <<"2", "0", "2", "4", "-">> \o TwoDigits(1 + ((k - 1) \div 28)) \o <<"-">>
        \o TwoDigits(1 + ((k - 1) % 28))

RECURSIVE Join(_)
Join(fs) == IF Len(fs) = 1 THEN fs[1] ELSE fs[1] \o <<",">> \o Join(Tail(fs))

\* the six fields after the prices, as in the record of the specification
RestFields ==
    << <<"1", "0", "0", "0", "0", "0">>,
       <<"1", "0", "5", "0", "0", "0", "0", ".", "0", "0">>,
       <<"4", ".", "7", "6">>,
       <<"2", ".", "9", "4">>,
       <<"0", ".", "3", "0">>,
       <<"1", ".", "2", "0">> >>

\* A record of the feed for day k.  b.f1 .. b.f4 are the prices at positions
\* 1 .. 4 in cents; a "short" record has 9 fields, a "dash" record carries
\* "-" at position 2, as the feed does for a value it does not have.
FeedRecord(k, b) ==
    LET prices == <<FormatCents(b.f1),
                    IF b.kind = "dash" THEN <<"-">> ELSE FormatCents(b.f2),
                    FormatCents(b.f3), FormatCents(b.f4)>>
        all    == <<FormatDate(k)>> \o prices \o RestFields
    IN  Join(IF b.kind = "short" THEN SubSeq(all, 1, 9) ELSE all)

Shape(kind, f1, f2, f3, f4) == [kind |-> kind, f1 |-> f1, f2 |-> f2, f3 |-> f3, f4 |-> f4]

\* the record shapes the small feeds are built from: a flat bar, two
\* ordinary bars, a bar whose position 3 lies below its position 4, a
\* record that is too short and a record with a field that is no number
Shapes ==
    { Shape("full", 1000, 1000, 1000, 1000),
      Shape("full", 1020, 1005, 1055,  955),
      Shape("full", 1050, 1100, 1150, 1050),
      Shape("full", 1050, 1040, 1010, 1060),
      Shape("short", 1020, 1005, 1055, 955),
      Shape("dash", 1020, 1005, 1055, 955) }

\* the longest feed and the longest column that are enumerated exhaustively
MaxLen == 3
MaxCol == 4

SeqsUpTo(S, n) == UNION {[1..k -> S] : k \in 0..n}

FeedOf(bs) == [k \in 1..Len(bs) |-> FeedRecord(k, bs[k])]

\* the record of the specification's end-to-end scenario
SampleFeed == <<FeedRecord(2, Shape("full", 1050, 1020, 1060, 1010))>>

\* the move of position 2, in cents, from bar k to bar k + 1 of a walk
StepOf(walk, k) ==
    CASE walk = "up100" -> 100
      [] walk = "up37"  -> 37
      [] walk = "saw"   -> IF k % 3 = 0 THEN -81 ELSE 47

\* bars k .. n of a walk of ordinary bars, bar k having c cents at position 2
RECURSIVE Walk(_, _, _, _)
Walk(n, k, c, walk) ==
    IF k > n THEN <<>>
    ELSE <<Shape("full", c + 20, c, c + 50, c - 50)>>
             \o Walk(n, k + 1, c + StepOf(walk, k), walk)

\* answers whose records are not in the order of their days: the latest
\* day first, as a provider answers that lists the newest bar first, and
\* three days in no order
UnorderedFeeds ==
    { <<FeedRecord(2, Shape("full", 1050, 1100, 1150, 1050)),
        FeedRecord(1, Shape("full", 1020, 1005, 1055,  955))>>,
      <<FeedRecord(3, Shape("full", 1050, 1100, 1150, 1050)),
        FeedRecord(1, Shape("full", 1020, 1005, 1055,  955)),
        FeedRecord(2, Shape("full", 1000, 1000, 1000, 1000))>> }

\* the closes 10, 11, .., 20 of the specification's MACD scenario;
\* a strictly increasing series long enough for the 60-bar window;
\* a series that rises and falls; a run of flat bars longer than 9
ScenarioFeeds ==
    { SampleFeed,
      FeedOf(Walk(11, 1, 1000, "up100")),
      FeedOf(Walk(60 + 1, 1, 1000, "up37")),
      FeedOf(Walk(26 + 4, 1, 1000, "saw")),
      FeedOf([k \in 1..(9 + 3) |-> Shape("full", 1000, 1000, 1000, 1000)]) }

Feeds == {FeedOf(bs) : bs \in SeqsUpTo(Shapes, MaxLen)} \cup ScenarioFeeds \cup UnorderedFeeds

ColumnValues == {None, Some(10 * Scale), Some(12 * Scale + 50)}

Columns == SeqsUpTo(ColumnValues, MaxCol)

\* the longest security code that is enumerated exhaustively
MaxCode == 3

\* the characters of the enumerated codes: digits that select Shenzhen and
\* Shanghai, the dot, the letters of the suffixes and a blank
CodeChars == {"0", "1", "6", ".", "S", "Z", "H", "s", " "}

\* codes of n digits: every leading digit that the rules tell apart, then
\* n - 1 digits out of two
DigitCodes(n) ==
    {<<first>> \o rest : first \in {"0", "1", "3", "6", "9"}, rest \in [1..(n - 1) -> {"0", "7"}]}

\* the ways a caller writes the code c: bare, with a suffix in upper, lower
\* and mixed case, as a secid of either market, and with blanks around it
Spellings(c) ==
    { c,
      c \o <<".", "S", "Z">>, c \o <<".", "S", "H">>,
      c \o <<".", "s", "z">>, c \o <<".", "S", "h">>,
      <<"0", ".">> \o c, <<"1", ".">> \o c,
      <<" ">> \o c \o <<".", "s", "H">> \o <<" ">> }

StockCodes ==
    SeqsUpTo(CodeChars, MaxCode)
        \cup UNION {Spellings(c) : c \in DigitCodes(6)}
        \cup DigitCodes(5)
        \cup { <<"0", "1", "8", "1", "0">>,
                <<"a", "b", "c", ".", "S", "Z">>,
                <<"S", "Z", ".", "S", "H">>,
                <<"S", "H", "6", "0", "0", "5", "1", "9">>,
                <<"6", "0", "0", "5", "1", "9", ".", "X", ".", "S", "H">> }

\* the periods the functions are called with: the defaults of the source
\* and small ones that the enumerated feeds are long enough for
MaPeriods == {2, 3, 5, 10, 20, 60}
EmaPeriods == {2, 9, 12, 26}
MacdArgs == {<<12, 26, 9>>, <<2, 3, 2>>}
RsiArgs == {<<6, 12, 24>>, <<1, 2, 3>>}
KdjArgs == {<<9, 3, 3>>, <<2, 3, 3>>, <<3, 2, 2>>}
Impls == {"kline_data", "WebCrawlerDataSource"}

----------------------------------------------------------------------------
(* The state machine                                                        *)

closes == [i \in 1..Len(bars) |-> bars[i].close]
highs == [i \in 1..Len(bars) |-> bars[i].high]
lows == [i \in 1..Len(bars) |-> bars[i].low]

\* bars holds the bars of the feed's answer, none when parsing it raises
Init ==
    /\ \/ klines \in Feeds /\ column = <<>> /\ request_code = <<>>
       \/ klines = <<>> /\ column \in Columns /\ request_code = <<>>
       \/ klines = <<>> /\ column = <<>> /\ request_code \in StockCodes
    /\ bars = parse_kline_data(klines).val
    /\ pc = "idle"
    /\ op = [name |-> "none", impl |-> "none", args |-> <<>>]
    /\ out = <<>>
    /\ default_periods = <<6, 12, 24>>
    /\ remembered = <<>>
    /\ spider = "None"
    /\ searcher = "None"
    /\ lifecycle = "constructed"
    /\ NotServing

\* a call that stores what it computes in the list it was given: a moving
\* average or an EMA written over its data
Call_in_place(name, impl, args, result) ==
    /\ pc = "idle"
    /\ pc' = "done"
    /\ op' = [name |-> name, impl |-> impl, args |-> args]
    /\ out' = result
    /\ column' = IF name = "calculate_ema" THEN result ELSE column
    /\ bars' = IF name = "calculate_ma"
                THEN [i \in 1..Len(bars) |->
                         IF IsNone(result[i]) THEN bars[i]
                         ELSE [bars[i] EXCEPT !.close = Val(result[i])]]
                ELSE bars
    /\ UNCHANGED <<klines, request_code>>
    /\ UNCHANGED outside

\* A call of one function by a caller that holds klines, bars, column and
\* request_code, up to its return.  The functions assign to local names and
\* to lists they have created themselves only, so what the caller holds is
\* left as it is.
Call(name, impl, args, result) ==
    /\ pc = "idle"
    /\ pc' = "done"
    /\ op' = [name |-> name, impl |-> impl, args |-> args]
    /\ out' = result
    /\ UNCHANGED <<klines, bars, column, request_code>>
    /\ UNCHANGED outside

ParseKlineData ==
    Call("parse_kline_data", "kline_data", <<>>, parse_kline_data(klines))

GetHistoricalKData ==
    Call("get_historical_k_data", "WebCrawlerDataSource", <<>>, get_historical_k_data(klines))

GetTechnicalIndicators ==
    Call("get_technical_indicators", "WebCrawlerDataSource", <<>>,
         get_technical_indicators(klines))

\* the start dates a caller of the tool asks for: the first two days of the
\* feeds and a day after their last
StartDates == {FormatDate(1), FormatDate(2), FormatDate(60 + 2)}

GetTechnicalIndicatorsTool(start_date) ==
    Call("get_technical_indicators_tool", "kline_data", <<start_date>>,
         get_technical_indicators_tool(klines, start_date))

CalculateMa(impl, p) ==
    Call("calculate_ma", impl, <<p>>,
         IF impl = "kline_data" THEN calculate_ma(closes, p) ELSE _calculate_ma(closes, p))

CalculateEma(impl, p) ==
    Call("calculate_ema", impl, <<p>>,
         IF impl = "kline_data" THEN calculate_ema(column, p) ELSE _calculate_ema(column, p))

CalculateMacd(impl, a) ==
    Call("calculate_macd", impl, a,
         IF impl = "kline_data" THEN calculate_macd(closes, a[1], a[2], a[3])
         ELSE _calculate_macd(closes, a[1], a[2], a[3]))

CalculateRsi(impl, a) ==
    Call("calculate_rsi", impl, a,
         IF impl = "kline_data" THEN calculate_rsi(closes, a) ELSE _calculate_rsi(closes, a))

CalculateKdj(impl, a) ==
    Call("calculate_kdj", impl, a,
         IF impl = "kline_data" THEN calculate_kdj(highs, lows, closes, a[1], a[2], a[3])
         ELSE _calculate_kdj(highs, lows, closes, a[1], a[2], a[3]))

\* the three functions that turn a security code into the form a feed asks for
Normalizers == {"format_secid", "_format_secid", "_add_exchange_prefix"}

normalize(name, code) ==
    CASE name = "format_secid"         -> format_secid(code)
      [] name = "_format_secid"        -> _format_secid(code)
      [] name = "_add_exchange_prefix" -> _add_exchange_prefix(code)

Normalize(name) == Call(name, "crawler", <<request_code>>, normalize(name, request_code))

\* the caller passes the identifier it was answered with to the same function again
NormalizeAgain(name) ==
    /\ pc = "done"
    /\ op.name = name
    /\ op.impl = "crawler"
    /\ out.exc = "None"
    /\ op' = [name |-> name, impl |-> "crawler again", args |-> <<out.val>>]
    /\ out' = normalize(name, out.val)
    /\ UNCHANGED <<klines, bars, column, request_code, pc>>
    /\ UNCHANGED outside

\* the caller takes the result and is ready for the next call
Finish ==
    /\ pc = "done"
    /\ pc' = "idle"
    /\ op' = [name |-> "none", impl |-> "none", args |-> <<>>]
    /\ out' = <<>>
    /\ UNCHANGED <<klines, bars, column, request_code>>
    /\ UNCHANGED outside

Next ==
    \/ ParseKlineData
    \/ GetHistoricalKData
    \/ GetTechnicalIndicators
    \/ \E start_date \in StartDates : GetTechnicalIndicatorsTool(start_date)
    \/ \E impl \in Impls, p \in MaPeriods : CalculateMa(impl, p)
    \/ \E impl \in Impls, p \in EmaPeriods : CalculateEma(impl, p)
    \/ \E impl \in Impls, a \in MacdArgs : CalculateMacd(impl, a)
    \/ \E impl \in Impls, a \in RsiArgs : CalculateRsi(impl, a)
    \/ \E impl \in Impls, a \in KdjArgs : CalculateKdj(impl, a)
    \/ \E name \in Normalizers : Normalize(name)
    \/ \E name \in Normalizers : NormalizeAgain(name)
    \/ Finish

Spec == Init /\ [][Next]_vars

----------------------------------------------------------------------------
(* Calling the indicator functions again, on one series among others        *)

\* the series a caller goes back and forth between
RecomputeFeeds ==
    { FeedOf(Walk(9, 1, 1000, "saw")),
      FeedOf(Walk(11, 1, 1000, "up100")),
      <<FeedRecord(2, Shape("full", 1050, 1100, 1150, 1050)),
        FeedRecord(1, Shape("full", 1020, 1005, 1055,  955))>> }

Recomputed == {"calculate_ma", "calculate_ema", "calculate_macd", "calculate_rsi", "calculate_kdj"}

\* the calls that a caller counts after the one it has kept, at most
MaxOthers == 2

\* the call of an indicator function as the tool and the data source write
\* it, calculate_macd(closes), calculate_rsi(closes), calculate_kdj(highs,
\* lows, closes), with every period left to its default; periods is the
\* list the default of calculate_rsi holds at the time of the call
recompute(name, impl, periods) ==
    CASE name = "calculate_ma" ->
             IF impl = "kline_data" THEN calculate_ma(closes, 5) ELSE _calculate_ma(closes, 5)
      [] name = "calculate_ema" ->
             IF impl = "kline_data" THEN calculate_ema(column, 12) ELSE _calculate_ema(column, 12)
      [] name = "calculate_macd" ->
             IF impl = "kline_data" THEN calculate_macd(closes, 12, 26, 9)
             ELSE _calculate_macd(closes, 12, 26, 9)
      [] name = "calculate_rsi" ->
             IF impl = "kline_data" THEN calculate_rsi(closes, periods)
             ELSE _calculate_rsi(closes, periods)
      [] name = "calculate_kdj" ->
             IF impl = "kline_data" THEN calculate_kdj(highs, lows, closes, 9, 3, 3)
             ELSE _calculate_kdj(highs, lows, closes, 9, 3, 3)

\* what the caller keeps after a call: the call just made, or the call it
\* kept before, with one more call on another series counted
Keep(name, impl, result) ==
    \/ remembered' =
           <<[name |-> name, impl |-> impl, series |-> klines, result |-> result,
              others |-> 0]>>
    \/ remembered' =
           IF remembered = <<>> THEN remembered
           ELSE IF remembered[1].series = klines \/ remembered[1].others = MaxOthers
                THEN remembered
           ELSE <<[remembered[1] EXCEPT !.others = @ + 1]>>

\* a call that leaves a period behind in the list its default holds
Recompute_default_list_grows(name, impl) ==
    /\ pc = "idle"
    /\ pc' = "done"
    /\ op' = [name |-> name, impl |-> impl, args |-> <<>>]
    /\ out' = recompute(name, impl, default_periods)
    /\ default_periods' = IF name = "calculate_rsi" /\ Len(default_periods) = 3
                           THEN Append(default_periods, 48) ELSE default_periods
    /\ Keep(name, impl, out')
    /\ UNCHANGED <<klines, bars, column, request_code>>
    /\ UNCHANGED <<spider, searcher, lifecycle>>
    /\ UNCHANGED serving

\* A call of an indicator function on the series the caller holds.  The
\* functions read periods and write to local names only; they hold no
\* global statement and assign to no attribute of self.
Recompute(name, impl) ==
    /\ pc = "idle"
    /\ pc' = "done"
    /\ op' = [name |-> name, impl |-> impl, args |-> <<>>]
    /\ out' = recompute(name, impl, default_periods)
    /\ Keep(name, impl, out')
    /\ UNCHANGED <<klines, bars, column, request_code, default_periods>>
    /\ UNCHANGED <<spider, searcher, lifecycle>>
    /\ UNCHANGED serving

\* the caller turns to another series
TakeSeries(ks) ==
    /\ pc = "idle"
    /\ ks # klines
    /\ klines' = ks
    /\ bars' = parse_kline_data(ks).val
    /\ column' = [i \in 1..Len(bars') |-> Some(bars'[i].close)]
    /\ UNCHANGED <<request_code, pc, op, out, default_periods, remembered>>
    /\ UNCHANGED <<spider, searcher, lifecycle>>
    /\ UNCHANGED serving

InitRecompute ==
    /\ klines \in RecomputeFeeds
    /\ bars = parse_kline_data(klines).val
    /\ column = [i \in 1..Len(bars) |-> Some(bars[i].close)]
    /\ request_code = <<>>
    /\ pc = "idle"
    /\ op = [name |-> "none", impl |-> "none", args |-> <<>>]
    /\ out = <<>>
    /\ default_periods = <<6, 12, 24>>
    /\ remembered = <<>>
    /\ spider = "None"
    /\ searcher = "None"
    /\ lifecycle = "constructed"
    /\ NotServing

NextRecompute ==
    \/ \E name \in Recomputed, impl \in Impls : Recompute(name, impl)
    \/ \E ks \in RecomputeFeeds : TakeSeries(ks)
    \/ Finish

SpecRecompute == InitRecompute /\ [][NextRecompute]_vars

----------------------------------------------------------------------------
(* src/src/stock_data_source.py: the WebCrawlerDataSource object            *)

\* EastMoneyKlineSpider.get_k_history_data: the code is turned into a secid
\* before the request is sent; net is what the request comes to: "klines"
\* for the answer ks, "RequestException" for a request or a status that
\* raises, "RuntimeError" for a response without data or klines.  requests
\* counts the GET requests sent.
get_k_history_data(stock_codes, net, ks) ==
    LET sent(secid) ==
            IF secid.exc # "None" THEN [exc |-> secid.exc, val |-> <<>>, requests |-> 0]
            ELSE IF net # "klines" THEN [exc |-> net, val |-> <<>>, requests |-> 1]
            ELSE [exc |-> "None", val |-> ks, requests |-> 1]
    IN  sent(_format_secid(stock_codes))

\* WebCrawlerDataSource.get_historical_k_data, the whole method: it refuses
\* to work without a spider, and every exception of the spider and of the
\* parsing other than NoDataFoundError is logged and raised again as
\* DataSourceError.  logged holds the levels of what the method logs.
WebCrawlerDataSource_get_historical_k_data(self_spider, stock_code, net, ks) ==
    LET parsed(h) ==
            [exc |-> h.exc,
             val |-> h.val,
             logged |-> CASE h.exc = "None" -> <<"info">>
                          [] h.exc = "NoDataFoundError" -> <<"warning">>
                          [] OTHER -> <<"error">>,
             requests |-> 1]
        fetched(f) ==
            IF f.exc # "None"
            THEN [exc |-> "DataSourceError", val |-> <<>>, logged |-> <<"error">>,
                  requests |-> f.requests]
            ELSE parsed(get_historical_k_data(f.val))
    IN  IF self_spider = "None"
        THEN [exc |-> "DataSourceError", val |-> <<>>, logged |-> <<"error">>, requests |-> 0]
        ELSE fetched(get_k_history_data(stock_code, net, ks))

\* what get_technical_indicators makes of the bars it was answered with
indicator_points(k_data) ==
    LET points(cols) ==
            IF \E c \in ColumnNames : Len(cols[c]) < Len(k_data)
            THEN [exc |-> "DataSourceError", val |-> <<>>, logged |-> <<"error">>]
            ELSE [exc |-> "None",
                  val |-> [i \in 1..Len(k_data) |->
                              [date     |-> k_data[i].date,
                               ma5      |-> cols.ma5[i],
                               ma10     |-> cols.ma10[i],
                               ma20     |-> cols.ma20[i],
                               ma60     |-> cols.ma60[i],
                               macd_dif |-> cols.DIF[i],
                               macd_dea |-> cols.DEA[i],
                               macd_bar |-> cols.MACD[i],
                               rsi6     |-> cols.rsi6[i],
                               rsi12    |-> cols.rsi12[i],
                               rsi24    |-> cols.rsi24[i],
                               kdj_k    |-> cols.k[i],
                               kdj_d    |-> cols.d[i],
                               kdj_j    |-> cols.j[i]]],
                  logged |-> <<"info">>]
    IN  points(indicator_columns(k_data))

\* WebCrawlerDataSource.get_technical_indicators, the whole method: it
\* refuses to work without a spider, an exception of get_historical_k_data
\* passes through it, and no bar raises NoDataFoundError
WebCrawlerDataSource_get_technical_indicators(self_spider, stock_code, net, ks) ==
    LET computed(hist, p) ==
            [exc |-> p.exc, val |-> p.val, logged |-> hist.logged \o p.logged,
             requests |-> hist.requests]
        answered(hist) ==
            IF hist.exc # "None" THEN hist
            ELSE IF hist.val = <<>>
                 THEN [exc |-> "NoDataFoundError", val |-> <<>>, logged |-> hist.logged,
                       requests |-> hist.requests]
            ELSE computed(hist, indicator_points(hist.val))
    IN  IF self_spider = "None"
        THEN [exc |-> "DataSourceError", val |-> <<>>, logged |-> <<"error">>, requests |-> 0]
        ELSE answered(WebCrawlerDataSource_get_historical_k_data(self_spider, stock_code, net, ks))

\* WebCrawlerDataSource.get_stock_search; found is what StockSearcher.search
\* comes to: "items" for a list of stocks, "None" for no match or a request
\* that failed, "AttributeError" for a response that is no object
WebCrawlerDataSource_get_stock_search(self_searcher, found) ==
    IF self_searcher = "None"
    THEN [exc |-> "DataSourceError", val |-> <<>>, logged |-> <<"error">>, requests |-> 0]
    ELSE CASE found = "items" ->
                  [exc |-> "None", val |-> <<"items">>, logged |-> <<"info">>, requests |-> 1]
           [] found = "None" ->
                  [exc |-> "None", val |-> <<>>, logged |-> <<"info">>, requests |-> 1]
           [] OTHER ->
                  [exc |-> "DataSourceError", val |-> <<>>, logged |-> <<"error">>,
                   requests |-> 1]

NetOutcomes == {"klines", "RequestException", "RuntimeError"}

SearchOutcomes == {"items", "None", "AttributeError"}

\* the codes and the answers of the requests made of the object
SourceCodes ==
    { <<"6", "0", "0", "5", "1", "9">>,
      <<"0", "0", "0", "0", "0", "1", ".", "S", "Z">>,
      <<"1", ".", "6", "0", "0", "5", "1", "9">>,
      <<"a", "b", "c">>,
      <<"6", ".", "0">>,
      <<>> }

SourceFeeds ==
    { <<>>,
      SampleFeed,
      FeedOf(<<Shape("full", 1020, 1005, 1055, 955), Shape("full", 1050, 1100, 1150, 1050)>>),
      FeedOf(<<Shape("short", 1020, 1005, 1055, 955)>>),
      FeedOf(<<Shape("full", 1020, 1005, 1055, 955), Shape("dash", 1020, 1005, 1055, 955)>>),
      FeedOf(Walk(11, 1, 1000, "up100")) }

\* initialize(): imported is FALSE when the import of the crawler module
\* raises; the exception is caught and False is returned
Initialize(imported) ==
    /\ pc = "idle"
    /\ pc' = "done"
    /\ op' = [name |-> "initialize", impl |-> "WebCrawlerDataSource", args |-> <<imported>>]
    /\ out' = [exc |-> "None", val |-> imported,
                logged |-> IF imported THEN <<"info">> ELSE <<"warning">>, requests |-> 0]
    /\ spider' = IF imported THEN "EastMoneyKlineSpider" ELSE spider
    /\ searcher' = IF imported THEN "StockSearcher" ELSE searcher
    /\ lifecycle' = IF imported THEN "initialized" ELSE lifecycle
    /\ UNCHANGED <<klines, bars, column, request_code, default_periods, remembered>>
    /\ UNCHANGED serving

\* cleanup() that lets go of the spider only
Cleanup_spider_only ==
    /\ pc = "idle"
    /\ pc' = "done"
    /\ op' = [name |-> "cleanup", impl |-> "WebCrawlerDataSource", args |-> <<>>]
    /\ out' = [exc |-> "None", val |-> <<>>, logged |-> <<"info">>, requests |-> 0]
    /\ spider' = "None"
    /\ lifecycle' = "cleaned up"
    /\ UNCHANGED <<klines, bars, column, request_code, default_periods, remembered, searcher>>
    /\ UNCHANGED serving

\* cleanup()
Cleanup ==
    /\ pc = "idle"
    /\ pc' = "done"
    /\ op' = [name |-> "cleanup", impl |-> "WebCrawlerDataSource", args |-> <<>>]
    /\ out' = [exc |-> "None", val |-> <<>>, logged |-> <<"info">>, requests |-> 0]
    /\ spider' = "None"
    /\ searcher' = "None"
    /\ lifecycle' = "cleaned up"
    /\ UNCHANGED <<klines, bars, column, request_code, default_periods, remembered>>
    /\ UNCHANGED serving

RequestHistoricalKData(net) ==
    Call("WebCrawlerDataSource.get_historical_k_data", "WebCrawlerDataSource", <<net>>,
         WebCrawlerDataSource_get_historical_k_data(spider, request_code, net, klines))

RequestTechnicalIndicators(net) ==
    Call("WebCrawlerDataSource.get_technical_indicators", "WebCrawlerDataSource", <<net>>,
         WebCrawlerDataSource_get_technical_indicators(spider, request_code, net, klines))

RequestStockSearch(found) ==
    Call("WebCrawlerDataSource.get_stock_search", "WebCrawlerDataSource", <<found>>,
         WebCrawlerDataSource_get_stock_search(searcher, found))

\* the object after WebCrawlerDataSource(), a code to ask for and the answer
\* the feed has for it
InitDataSource ==
    /\ klines \in SourceFeeds
    /\ request_code \in SourceCodes
    /\ bars = <<>>
    /\ column = <<>>
    /\ pc = "idle"
    /\ op = [name |-> "none", impl |-> "none", args |-> <<>>]
    /\ out = <<>>
    /\ default_periods = <<6, 12, 24>>
    /\ remembered = <<>>
    /\ spider = "None"
    /\ searcher = "None"
    /\ lifecycle = "constructed"
    /\ NotServing

NextDataSource ==
    \/ \E imported \in BOOLEAN : Initialize(imported)
    \/ Cleanup
    \/ \E net \in NetOutcomes : RequestHistoricalKData(net)
    \/ \E net \in NetOutcomes : RequestTechnicalIndicators(net)
    \/ \E found \in SearchOutcomes : RequestStockSearch(found)
    \/ Finish

SpecDataSource == InitDataSource /\ [][NextDataSource]_vars

----------------------------------------------------------------------------
(* Properties                                                               *)

Called(name) == pc = "done" /\ op.name = name

Defined(col) == {k \in 1..Len(col) : ~IsNone(col[k])}

\* C1: for every bar series of length n >= 1 the technical indicators are
\* computed on, get_technical_indicators returns n points, the i-th point
\* carries the date of the i-th bar and the values the 13 columns hold at
\* i, and each of the 13 columns has exactly n entries.
C1_OnePointPerBar ==
    (Called("get_technical_indicators") /\ Len(bars) >= 1) =>
        /\ out.exc = "None"
        /\ Len(out.val) = Len(bars)
        /\ \A c \in ColumnNames : Len(out.columns[c]) = Len(bars)
        /\ \A i \in 1..Len(bars) :
              /\ out.val[i].date = bars[i].date
              /\ out.val[i].ma5 = out.columns.ma5[i]
              /\ out.val[i].ma10 = out.columns.ma10[i]
              /\ out.val[i].ma20 = out.columns.ma20[i]
              /\ out.val[i].ma60 = out.columns.ma60[i]
              /\ out.val[i].macd_dif = out.columns.DIF[i]
              /\ out.val[i].macd_dea = out.columns.DEA[i]
              /\ out.val[i].macd_bar = out.columns.MACD[i]
              /\ out.val[i].rsi6 = out.columns.rsi6[i]
              /\ out.val[i].rsi12 = out.columns.rsi12[i]
              /\ out.val[i].rsi24 = out.columns.rsi24[i]
              /\ out.val[i].kdj_k = out.columns.k[i]
              /\ out.val[i].kdj_d = out.columns.d[i]
              /\ out.val[i].kdj_j = out.columns.j[i]

\* C1 happens: the indicators of a series of more than 60 bars, whose
\* 60-bar average is undefined at the first bar and defined at the last
C1_Witness ==
    /\ Called("get_technical_indicators")
    /\ Len(bars) > 60
    /\ out.exc = "None"
    /\ IsNone(out.val[1].ma60)
    /\ ~IsNone(out.val[Len(bars)].ma60)
    /\ out.val[1].date # out.val[2].date

\* the fields of the i-th record of the feed's answer
FieldsOf(i) == Split(klines[i])

AllRecordsFull == \A i \in 1..Len(klines) : Len(FieldsOf(i)) >= 11

\* C2: of every record with at least 11 fields the parser maps field 0 to
\* date, field 1 to close, field 2 to open, field 3 to high, field 4 to
\* low and fields 5 to 10 to volume, amount, amplitude, change percent,
\* change amount and turnover rate.
C2_CloseBeforeOpen ==
    ((Called("parse_kline_data") \/ Called("get_historical_k_data"))
        /\ AllRecordsFull /\ out.exc = "None") =>
        /\ Len(out.val) = Len(klines)
        /\ \A i \in 1..Len(klines) :
              /\ out.val[i].date = FieldsOf(i)[1]
              /\ out.val[i].close = ParseFloat(FieldsOf(i)[2]).v
              /\ out.val[i].open = ParseFloat(FieldsOf(i)[3]).v
              /\ out.val[i].high = ParseFloat(FieldsOf(i)[4]).v
              /\ out.val[i].low = ParseFloat(FieldsOf(i)[5]).v
              /\ out.val[i].volume = ParseInt(FieldsOf(i)[6]).v
              /\ out.val[i].amount = ParseFloat(FieldsOf(i)[7]).v
              /\ out.val[i].amplitude = ParseFloat(FieldsOf(i)[8]).v
              /\ out.val[i].change_percent = ParseFloat(FieldsOf(i)[9]).v
              /\ out.val[i].change_amount = ParseFloat(FieldsOf(i)[10]).v
              /\ out.val[i].turnover_rate = ParseFloat(FieldsOf(i)[11]).v

\* the sum of s[lo], .., s[hi]
RECURSIVE SumRange(_, _, _)
SumRange(s, lo, hi) == IF lo > hi THEN 0 ELSE s[hi] + SumRange(s, lo, hi - 1)

\* C3: calculate_ma with window p leaves index i undefined exactly when
\* i < p - 1, and at every index i >= p - 1 returns the mean of the p
\* closes close[i-p+1..i], rounded to 2 decimals after the division.
\* (Position k is index k - 1.)
C3_MovingAverage ==
    Called("calculate_ma") =>
        LET p == op.args[1]
        IN  /\ Len(out) = Len(closes)
            /\ \A k \in 1..Len(closes) :
                  /\ IsNone(out[k]) <=> k < p
                  /\ k >= p =>
                        out[k] = Some(Round2(Div(SumRange(closes, k - p + 1, k), p)))

\* C3 happens: a window of the source (5, 10, 20 or 60) on a series that
\* is longer than the window and whose mean needs rounding somewhere
C3_Witness ==
    /\ Called("calculate_ma")
    /\ op.args[1] \in {5, 10, 20, 60}
    /\ Len(closes) > op.args[1]
    /\ \E k \in op.args[1]..Len(closes) :
          Div(SumRange(closes, k - op.args[1] + 1, k), op.args[1]) # Val(out[k])

MinOf(S) == CHOOSE k \in S : \A j \in S : k <= j

MaxOf(S) == CHOOSE k \in S : \A j \in S : k >= j

\* one step of the recurrence, (x - e) * alpha + e with alpha = 2 / (p + 1)
EmaStep(x, e, p) == Mul(x - e, Div(2 * Scale, p + 1)) + e

\* C4 as claimed: calculate_ema is undefined before the first defined entry
\* of x, equals that entry at its index, and at every later index i is
\* (x[i] - ema[i-1]) * 2 / (p + 1) + ema[i-1] when x[i] is defined and
\* undefined when x[i] is undefined.
C4_StepFromPreviousIndex ==
    (Called("calculate_ema") /\ Defined(column) # {}) =>
        LET p     == op.args[1]
            first == MinOf(Defined(column))
        IN  \A k \in 1..Len(column) :
               /\ k < first => IsNone(out[k])
               /\ k = first => out[k] = column[k]
               /\ (k > first /\ IsNone(column[k])) => IsNone(out[k])
               /\ (k > first /\ ~IsNone(column[k])) =>
                     /\ ~IsNone(out[k - 1])
                     /\ out[k] = Some(EmaStep(Val(column[k]), Val(out[k - 1]), p))

\* C4 as amended: calculate_ema is undefined before the first defined entry
\* of x, equals that entry at its index (the seed), is undefined at every
\* later index where x is undefined, and at every later index i where x[i]
\* is defined is (x[i] - e) * 2 / (p + 1) + e, e being the EMA at the
\* nearest earlier index where x is defined.
C4_StepFromLastDefined ==
    (Called("calculate_ema") /\ Defined(column) # {}) =>
        LET p     == op.args[1]
            first == MinOf(Defined(column))
        IN  \A k \in 1..Len(column) :
               /\ k < first => IsNone(out[k])
               /\ k = first => out[k] = column[k]
               /\ (k > first /\ IsNone(column[k])) => IsNone(out[k])
               /\ (k > first /\ ~IsNone(column[k])) =>
                     LET j == MaxOf({i \in Defined(column) : i < k})
                     IN  /\ ~IsNone(out[j])
                         /\ out[k] = Some(EmaStep(Val(column[k]), Val(out[j]), p))

\* C4 happens: a column that starts undefined and has a defined entry right
\* after an undefined one that follows the seed
C4_Witness ==
    /\ Called("calculate_ema")
    /\ Len(column) >= 4
    /\ IsNone(column[1]) /\ ~IsNone(column[2]) /\ IsNone(column[3]) /\ ~IsNone(column[4])
    /\ column[2] # column[4]
    /\ ~IsNone(out[4]) /\ out[4] # column[4]

\* C5: in calculate_macd DIF is defined exactly where the fast and the slow
\* EMA are both defined, DEA is defined from the first index where DIF is
\* defined on and not before, and the histogram is defined exactly where
\* DIF and DEA are both defined.
C5_MacdDefinedness ==
    (Called("calculate_macd") /\ Len(closes) >= 1) =>
        /\ Len(out.DIF) = Len(closes)
        /\ Len(out.DEA) = Len(closes)
        /\ Len(out.MACD) = Len(closes)
        /\ \A k \in 1..Len(closes) :
              /\ ~IsNone(out.DIF[k]) <=> (~IsNone(out.ema_fast[k]) /\ ~IsNone(out.ema_slow[k]))
              /\ ~IsNone(out.MACD[k]) <=> (~IsNone(out.DIF[k]) /\ ~IsNone(out.DEA[k]))
        /\ out.ema_fast = calculate_ema(Lift(closes), op.args[1])
        /\ out.ema_slow = calculate_ema(Lift(closes), op.args[2])
        /\ Defined(out.DIF) # {} =>
              \A k \in 1..Len(closes) :
                 ~IsNone(out.DEA[k]) <=> k >= MinOf(Defined(out.DIF))

\* C5 happens: the default periods on a series longer than the slow period
C5_Witness ==
    /\ Called("calculate_macd")
    /\ op.args = <<12, 26, 9>>
    /\ Len(closes) > 26
    /\ ~IsNone(out.DIF[1])
    /\ ~IsNone(out.MACD[Len(closes)])

\* the 11 closes 10, 11, .., 20
ElevenCloses == [k \in 1..11 |-> (9 + k) * Scale]

C7_HistogramFromUnrounded ==
    Called("calculate_macd") =>
        \A k \in 1..Len(out.MACD) :
           ~IsNone(out.MACD[k]) =>
              /\ out.MACD[k] = Some(Round2(2 * (Val(out.dif[k]) - Val(out.dea[k]))))
              /\ out.DIF[k] = Some(Round2(Val(out.dif[k])))
              /\ out.DEA[k] = Some(Round2(Val(out.dea[k])))

\* C7 happens: a histogram value that differs from what the returned,
\* rounded DIF and DEA would give
C7_Witness ==
    /\ Called("calculate_macd")
    /\ \E k \in 1..Len(out.MACD) :
          /\ ~IsNone(out.MACD[k])
          /\ out.MACD[k] # Some(Round2(2 * (Val(out.DIF[k]) - Val(out.DEA[k]))))

\* gain and loss of position k >= 2: max(change, 0) and max(-change, 0)
GainAt(k) == IF closes[k] - closes[k - 1] > 0 THEN closes[k] - closes[k - 1] ELSE 0

LossAt(k) == IF closes[k - 1] - closes[k] > 0 THEN closes[k - 1] - closes[k] ELSE 0

RECURSIVE GainSum(_, _)
GainSum(lo, hi) == IF lo > hi THEN 0 ELSE GainAt(hi) + GainSum(lo, hi - 1)

RECURSIVE LossSum(_, _)
LossSum(lo, hi) == IF lo > hi THEN 0 ELSE LossAt(hi) + LossSum(lo, hi - 1)

\* RSI of a pair of averages: 100 when the loss is 0, otherwise
\* 100 - 100 / (1 + gain / loss) rounded to 2 decimals
RsiFrom(g, l) ==
    IF l = 0 THEN 100 * Scale
    ELSE Round2(100 * Scale - Div(100 * Scale * Scale, Scale + Div(g * Scale, l)))

RsiPeriods == {op.args[i] : i \in 1..Len(op.args)}

\* C8: for a series of length n and a period p > 0, the whole RSI column is
\* undefined if n <= p; otherwise RSI is undefined at the indices 0..p-1
\* and defined at p..n-1, the value at index p coming from the simple
\* means of gain[1..p] and loss[1..p] and every later value from Wilder's
\* recurrence avg = (avg * (p - 1) + x[i]) / p.  (Position k is index
\* k - 1.)
C8_RsiWarmUpAndWilder ==
    Called("calculate_rsi") =>
        \A p \in RsiPeriods :
           LET n   == Len(closes)
               col == out.rsi[p]
               ag  == out.avg_gain[p]
               al  == out.avg_loss[p]
           IN  /\ Len(col) = n
               /\ n <= p => \A k \in 1..n : IsNone(col[k])
               /\ n > p =>
                     \A k \in 1..n :
                        /\ k <= p => IsNone(col[k])
                        /\ k > p =>
                              /\ ~IsNone(col[k])
                              /\ col[k] = Some(RsiFrom(Val(ag[k]), Val(al[k])))
                        /\ k = p + 1 =>
                              /\ ag[k] = Some(Div(GainSum(2, p + 1), p))
                              /\ al[k] = Some(Div(LossSum(2, p + 1), p))
                        /\ k > p + 1 =>
                              /\ ag[k] = Some(Div(Val(ag[k - 1]) * (p - 1) + GainAt(k), p))
                              /\ al[k] = Some(Div(Val(al[k - 1]) * (p - 1) + LossAt(k), p))

\* C8 happens: the default periods on a series that rises and falls and is
\* longer than every one of them, so that the period 24 reaches the
\* recurrence with a gain and a loss in its averages
C8_Witness ==
    /\ Called("calculate_rsi")
    /\ op.args = <<6, 12, 24>>
    /\ Len(closes) > 24 + 1
    /\ IsNone(out.rsi[24][24])
    /\ ~IsNone(out.rsi[24][Len(closes)])
    /\ Val(out.avg_gain[24][Len(closes)]) > 0
    /\ Val(out.avg_loss[24][Len(closes)]) > 0

\* and a series long enough for the period 6 and too short for the period 12
C8_WitnessShortSeries ==
    /\ Called("calculate_rsi")
    /\ op.args = <<6, 12, 24>>
    /\ Len(closes) > 6 /\ Len(closes) <= 12
    /\ ~IsNone(out.rsi[6][Len(closes)])
    /\ \A k \in 1..Len(closes) : IsNone(out.rsi[12][k])

StrictlyIncreasing(s) == \A k \in 2..Len(s) : s[k] > s[k - 1]

\* C9: wherever the averaged loss is 0 at an index where RSI is defined, RSI
\* is exactly 100; so for every strictly increasing series longer than the
\* period, RSI is exactly 100 at every index from the period on.
C9_ZeroLossIsHundred ==
    Called("calculate_rsi") =>
        \A p \in RsiPeriods :
           /\ Len(out.avg_loss[p]) = Len(out.rsi[p])
           /\ \A k \in 1..Len(out.rsi[p]) :
                 out.avg_loss[p][k] = Some(0) => out.rsi[p][k] = Some(100 * Scale)
           /\ (StrictlyIncreasing(closes) /\ Len(closes) > p) =>
                 \A k \in (p + 1)..Len(closes) : out.rsi[p][k] = Some(100 * Scale)

\* C9 happens: a strictly increasing series longer than the period 24
C9_Witness ==
    /\ Called("calculate_rsi")
    /\ op.args = <<6, 12, 24>>
    /\ StrictlyIncreasing(closes)
    /\ Len(closes) > 24
    /\ out.rsi[24][25] = Some(100 * Scale)
    /\ out.avg_loss[24][25] = Some(0)

\* the highest high and the lowest low of the positions lo..hi
WindowHigh(lo, hi) == MaxOf({highs[i] : i \in lo..hi})

WindowLow(lo, hi) ==  MinOf({lows[i] : i \in lo..hi})

\* C10: in calculate_kdj RSV is defined exactly at the indices
\* i >= period - 1; there it is exactly 50 when the highest high of the
\* last period bars equals their lowest low, and
\* (close[i] - window_low) / (window_high - window_low) * 100 otherwise.
C10_RsvAndFlatWindow ==
    Called("calculate_kdj") =>
        LET period == op.args[1]
            rsv    == out.rsv_list
        IN  /\ Len(rsv) = Len(closes)
            /\ \A k \in 1..Len(closes) :
                  /\ IsNone(rsv[k]) <=> k < period
                  /\ k >= period =>
                        LET wh == WindowHigh(k - period + 1, k)
                            wl == WindowLow(k - period + 1, k)
                        IN  IF wh = wl THEN rsv[k] = Some(50 * Scale)
                            ELSE rsv[k] = Some(Div((closes[k] - wl) * Scale, wh - wl) * 100)

\* C10 happens: period 9 on a series whose every window of 9 bars is flat
C10_Witness ==
    /\ Called("calculate_kdj")
    /\ op.args[1] = 9
    /\ Len(closes) > 9
    /\ WindowHigh(1, 9) = WindowLow(1, 9)
    /\ IsNone(out.rsv_list[8])
    /\ out.rsv_list[9] = Some(50 * Scale)

\* and a window that is not flat, whose RSV is neither 0, 50 nor 100
C10_WitnessQuotient ==
    /\ Called("calculate_kdj")
    /\ op.args[1] = 9
    /\ Len(closes) > 9
    /\ WindowHigh(1, 9) # WindowLow(1, 9)
    /\ ~IsNone(out.rsv_list[9])
    /\ Val(out.rsv_list[9]) \notin {0, 50 * Scale, 100 * Scale}

\* the value the smoothing loops of calculate_kdj carry after index i of the
\* list xs: the seed 50 before the first defined entry, and
\* (previous * (p - 1) + xs[i]) / p at every defined entry
RECURSIVE SmoothedAt(_, _, _)
SmoothedAt(xs, i, p) ==
    IF i = 0 THEN 50 * Scale
    ELSE IF IsNone(xs[i]) THEN SmoothedAt(xs, i - 1, p)
    ELSE Div(SmoothedAt(xs, i - 1, p) * (p - 1) + Val(xs[i]), p)

\* C11: in calculate_kdj K and D both start from the seed 50, not from the
\* first RSV: the first defined K is (50 * (kp - 1) + rsv) / kp and the first
\* defined D is (50 * (dp - 1) + K) / dp; every later value follows
\* k[i] = (k[i-1] * (kp - 1) + rsv[i]) / kp, and D the same recurrence from
\* the returned K; K, D and J = 3K - 2D are returned rounded to 2 decimals
\* and are defined at exactly the indices where RSV is defined.
C11_KdjSeedAndSmoothing ==
    Called("calculate_kdj") =>
        LET period == op.args[1]
            kp     == op.args[2]
            dp     == op.args[3]
            rsv    == out.rsv_list
            n      == Len(closes)
        IN  /\ Len(out.k) = n /\ Len(out.d) = n /\ Len(out.j) = n
            /\ \A i \in 1..n :
                  /\ IsNone(out.k[i]) <=> IsNone(rsv[i])
                  /\ IsNone(out.d[i]) <=> IsNone(rsv[i])
                  /\ IsNone(out.j[i]) <=> IsNone(rsv[i])
                  /\ ~IsNone(rsv[i]) =>
                        /\ out.k[i] = Some(Round2(SmoothedAt(rsv, i, kp)))
                        /\ out.d[i] = Some(Round2(SmoothedAt(out.k, i, dp)))
                        /\ out.j[i] = Some(Round2(3 * Val(out.k[i]) - 2 * Val(out.d[i])))
            /\ n >= period =>
                  /\ out.k[period] =
                        Some(Round2(Div(50 * Scale * (kp - 1) + Val(rsv[period]), kp)))
                  /\ out.d[period] =
                        Some(Round2(Div(50 * Scale * (dp - 1) + Val(out.k[period]), dp)))

\* C11 happens: the first RSV is not 50, so the seed shows in the first K
\* and D, and later bars follow the recurrence
C11_Witness ==
    /\ Called("calculate_kdj")
    /\ op.args = <<9, 3, 3>>
    /\ Len(closes) > 9 + 1
    /\ Val(out.rsv_list[9]) # 50 * Scale
    /\ out.k[9] # out.rsv_list[9]
    /\ IsNone(out.k[8]) /\ IsNone(out.d[8]) /\ IsNone(out.j[8])
    /\ ~IsNone(out.j[9 + 2])

\* the functions of the indicator engine
EngineCalls == {"calculate_ma", "calculate_macd", "calculate_rsi", "calculate_kdj"}

\* the call that has just returned ended in an exception: the engine
\* functions hold no raise statement and return a list or a dict of lists;
\* the parser and the data source methods answer with [exc, val]
Raised == op.name \notin EngineCalls \cup {"calculate_ema", "none"} /\ out.exc # "None"

\* what the engine functions return on a series of length 0
EmptyResult ==
    CASE op.name = "calculate_ma"   -> out = <<>>
      [] op.name = "calculate_macd" -> out.DIF = <<>> /\ out.DEA = <<>> /\ out.MACD = <<>>
      [] op.name = "calculate_rsi"  -> \A p \in DOMAIN out.rsi : out.rsi[p] = <<>>
      [] op.name = "calculate_kdj"  -> out.k = <<>> /\ out.d = <<>> /\ out.j = <<>>

\* C12: the indicator engine (MA, MACD, RSI, KDJ) fails if and only if the
\* series is empty: on a series of length 0 it fails with an
\* insufficient-data error, and on every series of length >= 1 it returns
\* without raising, flat windows, zero average loss and bars that violate
\* low <= open, close <= high included.
C12_FailsIffEmpty ==
    (pc = "done" /\ op.name \in EngineCalls) => (Raised <=> Len(closes) = 0)

\* what the code does instead on a series of length 0: every engine
\* function returns empty lists, and nothing is raised
C12_EmptySeriesReturnsEmpty ==
    (pc = "done" /\ op.name \in EngineCalls /\ Len(closes) = 0) =>
        ~Raised /\ EmptyResult

\* the degenerate series of C12 are computed on: a flat window, a bar whose
\* high lies below its low, and a series without any loss
C12_DegenerateSeriesReached ==
    /\ Called("calculate_kdj")
    /\ Len(closes) >= 2
    /\ \E i \in 1..Len(closes) : highs[i] < lows[i]
    /\ \E i \in 1..Len(closes) : highs[i] = lows[i]

\* the two functions that make a secid
SecidCalls == {"format_secid", "_format_secid"}

SixDigits(c) == Len(c) = 6 /\ \A i \in 1..6 : c[i] \in DigitChars

\* the suffix of a market in every letter case
SuffixSH == {<<".", a, b>> : a \in {"S", "s"}, b \in {"H", "h"}}

SuffixSZ == {<<".", a, b>> : a \in {"S", "s"}, b \in {"Z", "z"}}

\* x is the code c as such, c with one of the suffixes, or c behind the market
Spells(x, c, suffixes, market) ==
    \/ x = c
    \/ x = <<market, ".">> \o c
    \/ \E suffix \in suffixes : x = c \o suffix

\* C13: for every 6-digit code c beginning with 6, normalizing c,
\* c + ".SH" and "1." + c gives the same Shanghai secid "1." + c; for every
\* 6-digit code c not beginning with 6, normalizing c, c + ".SZ" and
\* "0." + c gives the same Shenzhen secid "0." + c; the SZ/SH suffix is
\* recognized in any letter case.
C13_SpellingsAgree ==
    (pc = "done" /\ op.name \in SecidCalls) =>
        \A c \in {Slice(op.args[1], 0, 6), Slice(op.args[1], 2, 8)} :
            SixDigits(c) =>
                /\ (c[1] = "6" /\ Spells(op.args[1], c, SuffixSH, "1"))
                       => out = Return(<<"1", ".">> \o c)
                /\ (c[1] # "6" /\ Spells(op.args[1], c, SuffixSZ, "0"))
                       => out = Return(<<"0", ".">> \o c)

\* C13 happens: a Shanghai code with a mixed-case suffix
C13_Witness ==
    /\ pc = "done" /\ op.name = "_format_secid"
    /\ Len(op.args[1]) = 9
    /\ SixDigits(SubSeq(op.args[1], 1, 6))
    /\ op.args[1][1] = "6"
    /\ SubSeq(op.args[1], 7, 9) = <<".", "S", "h">>
    /\ out = Return(<<"1", ".">> \o SubSeq(op.args[1], 1, 6))

\* and a Shenzhen code in its three spellings, the suffix in lower case
C13_WitnessShenzhen ==
    /\ pc = "done" /\ op.name = "format_secid"
    /\ Len(op.args[1]) = 9
    /\ SixDigits(SubSeq(op.args[1], 1, 6))
    /\ op.args[1][1] = "3"
    /\ SubSeq(op.args[1], 7, 9) = <<".", "s", "z">>
    /\ out = Return(<<"0", ".">> \o SubSeq(op.args[1], 1, 6))

\* C14: identifier normalization is idempotent: for every input string x on
\* which normalize succeeds, normalize(normalize(x)) also succeeds and
\* equals normalize(x).
C14_Idempotent ==
    (pc = "done" /\ op.impl = "crawler again") => out = Return(op.args[1])

\* where the functions are idempotent: _add_exchange_prefix everywhere, and
\* the two secid functions on every answer that is a market and digits
C14_IdempotentOnDigits ==
    (pc = "done" /\ op.impl = "crawler again") =>
        \/ op.name = "_add_exchange_prefix" /\ out = Return(op.args[1])
        \/ op.name \in SecidCalls /\ isdigit(right_of(op.args[1]))
               /\ out = Return(op.args[1])
        \/ op.name \in SecidCalls /\ ~isdigit(right_of(op.args[1]))
               /\ out # Return(op.args[1])

\* the second call raises: ".SZ" gives "0.", which is no secid
C14_SecondCallRaises ==
    /\ pc = "done" /\ op.impl = "crawler again" /\ op.name = "format_secid"
    /\ op.args[1] = <<"0", ".", "A", "B", "C">>
    /\ out = Raise("ValueError")

\* the second call answers something else: "SZ.SH" gives "1.SZ", then "0.1"
C14_SecondCallDiffers ==
    /\ pc = "done" /\ op.impl = "crawler again" /\ op.name = "_format_secid"
    /\ op.args[1] = <<"1", ".", "S", "Z">>
    /\ out = Return(<<"0", ".", "1">>)

FiveDigits(c) == Len(c) = 5 /\ \A i \in 1..5 : c[i] \in DigitChars

\* C15: every all-digit code of exactly 5 characters (e.g. "01810") is
\* treated by the identifier normalizer as a Hong Kong code and returned
\* unchanged, with no market prefix added.
C15_FiveDigitsUnchanged ==
    (pc = "done" /\ op.name \in Normalizers /\ FiveDigits(op.args[1])) =>
        out = Return(op.args[1])

\* what the code does with a 5-digit code: _add_exchange_prefix returns it
\* unchanged, the two secid functions put a mainland market before it
C15_SecidCallsAddMarket ==
    (pc = "done" /\ op.name \in Normalizers /\ FiveDigits(op.args[1])) =>
        IF op.name = "_add_exchange_prefix" THEN out = Return(op.args[1])
        ELSE out = Return((IF op.args[1][1] = "6" THEN <<"1">> ELSE <<"0">>)
                              \o <<".">> \o op.args[1])

\* the code of the specification's example, through format_secid
C15_HongKongAsShenzhen ==
    /\ pc = "done" /\ op.name = "format_secid"
    /\ op.args[1] = <<"0", "1", "8", "1", "0">>
    /\ out = Return(<<"0", ".", "0", "1", "8", "1", "0">>)

\* x without the blanks at its ends
RECURSIVE Trimmed(_)
Trimmed(x) ==
    IF x # <<>> /\ x[1] \in Whitespace THEN Trimmed(Tail(x))
    ELSE IF x # <<>> /\ x[Len(x)] \in Whitespace THEN Trimmed(SubSeq(x, 1, Len(x) - 1))
    ELSE x

\* t is all digits (and is not empty)
Numeric(t) == t # <<>> /\ \A i \in 1..Len(t) : t[i] \in DigitChars

\* t is of the form 0.DIGITS or 1.DIGITS
SecidShape(t) ==
    /\ Len(t) >= 3
    /\ t[1] \in {"0", "1"}
    /\ t[2] = "."
    /\ Numeric(SubSeq(t, 3, Len(t)))

\* t is of the form LEFT.SZ or LEFT.SH, split at its first dot, the suffix
\* in any letter case
SuffixShape(t) ==
    /\ FirstPos(t, ".") # 0
    /\ SubSeq(t, FirstPos(t, "."), Len(t)) \in SuffixSZ \cup SuffixSH

C16_WitnessSecondDot ==
    /\ pc = "done" /\ op.name \in SecidCalls
    /\ op.args[1] = <<"6", "0", "0", "5", "1", "9", ".", "X", ".", "S", "H">>
    /\ out = Raise("ValueError")

\* the two parsers of bar records
ParserCalls == {"parse_kline_data", "get_historical_k_data"}

\* the positions of the feed's records with fewer than 11 fields
ShortRecords == {i \in 1..Len(klines) : Len(FieldsOf(i)) < 11}

\* C17: parsing a bar record with fewer than 11 comma-separated fields (e.g.
\* 9 fields) fails with a malformed-record error: such a record is never
\* silently dropped from the series and no partial result is returned for
\* the list that contains it.
C17_ShortRecordFails ==
    (pc = "done" /\ op.name \in ParserCalls /\ ShortRecords # {}) =>
        out.exc # "None" /\ out.val = <<>>

\* what the code does instead: when every number of the full records
\* converts, the call returns the bars of the full records, in their order,
\* and nothing tells that records were left out
C17_ShortRecordsSkipped ==
    (pc = "done" /\ op.name \in ParserCalls /\ ShortRecords # {} /\ out.exc = "None") =>
        /\ Len(out.val) = Len(klines) - Cardinality(ShortRecords)
        /\ \A k \in 1..Len(out.val) :
              \E i \in 1..Len(klines) :
                  /\ i \notin ShortRecords
                  /\ out.val[k].date = FieldsOf(i)[1]
                  /\ Cardinality({j \in 1..i : j \notin ShortRecords}) = k

\* a record of 9 fields between two full records is dropped: two bars come back
C17_PartialResultReached ==
    /\ pc = "done" /\ op.name = "parse_kline_data"
    /\ Len(klines) = 3
    /\ ShortRecords = {2}
    /\ Len(FieldsOf(2)) = 9
    /\ out.exc = "None"
    /\ Len(out.val) = 2

\* the dates of xs, bars or indicator points, never step back
AscendingByDate(xs) == \A i \in 1..Len(xs), j \in 1..Len(xs) : i < j => StrLeq(xs[i].date, xs[j].date)

\* the calls that build the bar series the indicators are calculated on
SeriesCalls == ParserCalls \cup {"get_technical_indicators"}

\* C18: for every list of raw bar records, in whatever order the upstream
\* provider returns them, the bar series handed to the indicator
\* calculations is ascending by date.
C18_AscendingByDate ==
    (pc = "done" /\ op.name \in SeriesCalls /\ out.exc = "None") => AscendingByDate(out.val)

\* what the code does instead: the series keeps the order of the answer, so
\* it is ascending exactly when the full records of the answer are
C18_OrderOfAnswerKept ==
    (pc = "done" /\ op.name \in SeriesCalls /\ out.exc = "None") =>
        LET kept(full) ==
                /\ Len(out.val) = Cardinality(full)
                /\ \A i \in full :
                      out.val[Cardinality({j \in full : j <= i})].date = FieldsOf(i)[1]
        IN  kept((1..Len(klines)) \ ShortRecords)

\* an answer that lists the later day first gives a series that steps back,
\* and the indicators are calculated on it
C18_DescendingSeriesReached ==
    /\ pc = "done" /\ op.name = "get_technical_indicators" /\ out.exc = "None"
    /\ Len(out.val) = 2
    /\ out.val[1].date = FormatDate(2)
    /\ out.val[2].date = FormatDate(1)
    /\ ~AscendingByDate(out.val)

\* the two requests for technical indicators: the method of the data source
\* and the tool
RequestCalls == {"get_technical_indicators", "get_technical_indicators_tool"}

\* no record of the answer yields a bar: it is empty or every record of it
\* has fewer than 11 fields
NoBar == ShortRecords = 1..Len(klines)

\* the MA, MACD, RSI and KDJ calculations were called in the request
EngineInvoked == DOMAIN out.columns = ColumnNames

\* the request ends in a no-data error: the method raises NoDataFoundError,
\* the tool, which raises nothing, answers with its text for no data
NoDataAnswer ==
    IF op.name = "get_technical_indicators_tool" THEN out.val = "not found"
    ELSE out.exc = "NoDataFoundError"

\* C19: when the list of bar records is empty, or no record of it yields a
\* bar, the request ends in a no-data error raised before the indicator
\* engine is invoked: on no execution path are the MA, MACD, RSI or KDJ
\* calculations called on a series of length 0.
C19_NoDataBeforeEngine ==
    (pc = "done" /\ op.name \in RequestCalls) =>
        /\ NoBar => NoDataAnswer /\ ~EngineInvoked
        /\ EngineInvoked => \A c \in ColumnNames : Len(out.columns[c]) >= 1

\* what holds instead: the method of the data source raises
\* NoDataFoundError before its calculations, and the tool answers an empty
\* list with a text without calculating; only the tool calculates on the
\* empty series that an answer of short records is parsed to
C19_DataSourceRaisesNoData ==
    /\ (pc = "done" /\ op.name = "get_technical_indicators" /\ NoBar) =>
            NoDataAnswer /\ ~EngineInvoked
    /\ (pc = "done" /\ op.name = "get_technical_indicators" /\ EngineInvoked) =>
            \A c \in ColumnNames : Len(out.columns[c]) >= 1
    /\ (pc = "done" /\ op.name = "get_technical_indicators_tool" /\ klines = <<>>) =>
            NoDataAnswer /\ ~EngineInvoked

\* the tool is given one record of 9 fields: the calculations are called on
\* a series of length 0 and an empty table is returned
C19_EngineOnEmptySeriesReached ==
    /\ pc = "done" /\ op.name = "get_technical_indicators_tool"
    /\ Len(klines) = 1 /\ ShortRecords = {1}
    /\ out.series = << <<>> >>
    /\ EngineInvoked
    /\ \A c \in ColumnNames : out.columns[c] = <<>>
    /\ out.val = "table" /\ out.rows = <<>>

\* the calls of the indicator functions
IndicatorCalls == EngineCalls \cup {"calculate_ema"}

C20_WitnessBars ==
    /\ pc = "done" /\ op.name = "calculate_ma" /\ op.args = <<2>>
    /\ Len(bars) = MaxLen
    /\ \E i \in 1..Len(bars) : ~IsNone(out[i]) /\ Val(out[i]) # closes[i]
    /\ bars = parse_kline_data(klines).val

\* the call that returned last is the call the caller has kept the result of
SameCallAsRemembered ==
    /\ pc = "done" /\ op.name \in Recomputed
    /\ remembered # <<>>
    /\ remembered[1].name = op.name
    /\ remembered[1].impl = op.impl
    /\ remembered[1].series = klines

BarRequests ==
    {"WebCrawlerDataSource.get_historical_k_data",
     "WebCrawlerDataSource.get_technical_indicators"}

\* the code asked for is one that _format_secid refuses
InvalidIdentifier == _format_secid(request_code).exc = "ValueError"

\* the answer holds a record of 11 fields of which one is no number
MalformedRecord ==
    \E i \in 1..Len(klines) : Len(FieldsOf(i)) >= 11 /\ ~k_data_dict(FieldsOf(i)).ok

\* the request was sent, answered with the records, and one is malformed
ParsedMalformed == ~InvalidIdentifier /\ op.args[1] = "klines" /\ MalformedRecord

\* C22: an invalid-identifier error or a malformed-record error raised while
\* bars are fetched and parsed reaches the caller of get_historical_k_data /
\* get_technical_indicators as that same error: it is not wrapped in another
\* error, not replaced by a default value, not logged and not retried.
C22_ErrorsReachCallerUnchanged ==
    (pc = "done" /\ op.name \in BarRequests /\ spider # "None") =>
        /\ InvalidIdentifier => out.exc = "ValueError" /\ out.logged = <<>>
        /\ ParsedMalformed => out.exc = "ValueError" /\ out.logged = <<>>

\* what the code does instead: both errors are logged at level error and
\* raised again as DataSourceError; no value is returned in their place and
\* the request is not sent a second time
C22_WrappedAndLogged ==
    (pc = "done" /\ op.name \in BarRequests /\ spider # "None") =>
        /\ InvalidIdentifier =>
              /\ out.exc = "DataSourceError" /\ out.logged = <<"error">>
              /\ out.val = <<>> /\ out.requests = 0
        /\ ParsedMalformed =>
              /\ out.exc = "DataSourceError" /\ out.logged = <<"error">>
              /\ out.val = <<>> /\ out.requests = 1

\* the code "abc" is refused by _format_secid and the caller of
\* get_technical_indicators is raised a DataSourceError
C22_WrappedIdentifierErrorReached ==
    /\ pc = "done" /\ op.name = "WebCrawlerDataSource.get_technical_indicators"
    /\ spider = "EastMoneyKlineSpider"
    /\ request_code = <<"a", "b", "c">>
    /\ InvalidIdentifier
    /\ out.exc = "DataSourceError" /\ out.logged = <<"error">>

\* and so is the caller of get_historical_k_data when a record holds "-"
C22_WrappedRecordErrorReached ==
    /\ pc = "done" /\ op.name = "WebCrawlerDataSource.get_historical_k_data"
    /\ ParsedMalformed
    /\ spider = "EastMoneyKlineSpider"
    /\ out.exc = "DataSourceError" /\ out.logged = <<"error">>

\* the requests made of the WebCrawlerDataSource object
SourceRequests == BarRequests \cup {"WebCrawlerDataSource.get_stock_search"}

\* C26: after any sequence of initialize() and cleanup() calls on a
\* WebCrawlerDataSource, get_historical_k_data, get_technical_indicators
\* and get_stock_search raise DataSourceError without contacting the
\* network whenever no successful initialize() has happened since
\* construction or since the most recent cleanup().
C26_UninitializedRaises ==
    (pc = "done" /\ op.name \in SourceRequests /\ lifecycle # "initialized") =>
        /\ out.exc = "DataSourceError"
        /\ out.requests = 0
        /\ out.val = <<>>

\* C26 happens: the object was initialized and cleaned up, and a search
\* that would have found stocks is refused
C26_Witness ==
    /\ pc = "done" /\ op.name = "WebCrawlerDataSource.get_stock_search"
    /\ op.args = <<"items">>
    /\ lifecycle = "cleaned up"
    /\ out.exc = "DataSourceError" /\ out.requests = 0

\* and so is a request for bars of an object that was never initialized,
\* for a code and an answer that give bars once it is
C26_WitnessConstructed ==
    /\ pc = "done" /\ op.name = "WebCrawlerDataSource.get_historical_k_data"
    /\ op.args = <<"klines">>
    /\ lifecycle = "constructed"
    /\ ~InvalidIdentifier /\ klines = SampleFeed
    /\ out.exc = "DataSourceError" /\ out.requests = 0

\* the tool has written its table
TableShown == pc = "done" /\ op.name = "get_technical_indicators_tool" /\ out.val = "table"

\* the positions in k_data of the bars from start_date on, in their order
ShownBars(k_data, start_date) ==
    {i \in 1..Len(k_data) : StrLeq(start_date, k_data[i].date)}

\* the rows are those of the bars at the positions of shown, each with the
\* values the lists hold at its bar's position
RowsOfOwnIndex(k_data, shown) ==
    /\ Len(out.rows) = Cardinality(shown)
    /\ \A own \in shown :
          LET row == out.rows[Cardinality({j \in shown : j <= own})]
          IN  /\ row.date = k_data[own].date
              /\ \A c \in ColumnNames : row[c] = out.columns[c][own]

\* C23: in the get_technical_indicators tool, which fetches bars from 60
\* days before start_date and shows only the bars with date >= start_date,
\* the number of rows shown equals the number of fetched bars with date >=
\* start_date, and every row shows the indicator values computed at that
\* bar's own index in the full fetched series, for every order in which the
\* fetched bars arrive.
C23_RowsShowOwnIndex ==
    TableShown => RowsOfOwnIndex(out.series[1], ShownBars(out.series[1], op.args[1]))

\* what holds instead: the number of rows is right for every order, and the
\* values are those of the bar's own index when the bars arrive ascending
\* by date
C23_AlignedWhenAscending ==
    TableShown =>
        /\ Len(out.rows) = Cardinality(ShownBars(out.series[1], op.args[1]))
        /\ AscendingByDate(out.series[1]) =>
              RowsOfOwnIndex(out.series[1], ShownBars(out.series[1], op.args[1]))

\* the bars arrive with the later day first and the table is asked for from
\* that day on: its one row shows the later day with the DIF of the other bar
C23_RowOfOtherBarReached ==
    /\ TableShown
    /\ Len(out.series[1]) = 2
    /\ op.args[1] = FormatDate(2)
    /\ out.series[1][1].date = FormatDate(2)
    /\ out.series[1][2].date = FormatDate(1)
    /\ Len(out.rows) = 1
    /\ out.rows[1].date = FormatDate(2)
    /\ out.rows[1].DIF = out.columns.DIF[2]
    /\ out.rows[1].DIF # out.columns.DIF[1]

\* the result of the call that returned last, computed by the other copy of
\* the function
OtherImplementation ==
    CASE op.name = "calculate_ma" ->
             IF op.impl = "kline_data" THEN _calculate_ma(closes, op.args[1])
             ELSE calculate_ma(closes, op.args[1])
      [] op.name = "calculate_ema" ->
             IF op.impl = "kline_data" THEN _calculate_ema(column, op.args[1])
             ELSE calculate_ema(column, op.args[1])
      [] op.name = "calculate_macd" ->
             IF op.impl = "kline_data"
             THEN _calculate_macd(closes, op.args[1], op.args[2], op.args[3])
             ELSE calculate_macd(closes, op.args[1], op.args[2], op.args[3])
      [] op.name = "calculate_rsi" ->
             IF op.impl = "kline_data" THEN _calculate_rsi(closes, op.args)
             ELSE calculate_rsi(closes, op.args)
      [] op.name = "calculate_kdj" ->
             IF op.impl = "kline_data"
             THEN _calculate_kdj(highs, lows, closes, op.args[1], op.args[2], op.args[3])
             ELSE calculate_kdj(highs, lows, closes, op.args[1], op.args[2], op.args[3])

\* C24: the duplicated indicator implementations agree: for every
\* close/high/low series and every period, the module-level calculate_ma,
\* calculate_ema, calculate_macd, calculate_rsi and calculate_kdj return
\* exactly the same columns (same defined indices, same seeds, same rounding
\* points) as WebCrawlerDataSource._calculate_ma, _calculate_ema,
\* _calculate_macd, _calculate_rsi and _calculate_kdj.
C24_ImplementationsAgree ==
    (pc = "done" /\ op.name \in IndicatorCalls) => out = OtherImplementation

\* C24 happens: the MACD of the data source has a bar that is not 0 on a
\* series that rises and falls, and the module-level function returns the same
C24_Witness ==
    /\ pc = "done" /\ op.name = "calculate_macd" /\ op.impl = "WebCrawlerDataSource"
    /\ op.args = <<12, 26, 9>>
    /\ Len(closes) = 26 + 4
    /\ \E i \in 1..Len(closes) : ~IsNone(out.MACD[i]) /\ Val(out.MACD[i]) # 0
    /\ out = calculate_macd(closes, 12, 26, 9)

\* the values of the RSI columns the call that returned last has defined
DefinedRsi ==
    { Val(out.rsi[p][i]) : <<p, i>> \in
        { <<p, i>> \in (DOMAIN out.rsi) \X (1..Len(closes)) :
             i \in DOMAIN out.rsi[p] /\ ~IsNone(out.rsi[p][i]) } }

\* C30: every defined RSI value returned by calculate_rsi lies between 0 and
\* 100 inclusive, for every close series and every period.
C30_RsiBetween0And100 ==
    (pc = "done" /\ op.name = "calculate_rsi") =>
        \A v \in DefinedRsi : 0 <= v /\ v <= 100 * Scale

\* C30 happens: one call returns a column that reaches both ends, 0 after
\* falls only and 100 after rises only, and a value strictly between
C30_Witness ==
    /\ pc = "done" /\ op.name = "calculate_rsi"
    /\ 0 \in DefinedRsi /\ 100 * Scale \in DefinedRsi
    /\ \E v \in DefinedRsi : 0 < v /\ v < 100 * Scale

----------------------------------------------------------------------------
(***************************************************************************)
(* src/src/stock_mcp: the server entry points, HybridDataSource and the    *)
(* spider of the real-time data                                            *)
(***************************************************************************)

\* the headers get_real_time_market_indices sets for the East Money API
EastMoneyHeaders ==
    [k \in {"Referer", "Host"} |->
        IF k = "Referer" THEN "https://eastmoney.com/" ELSE "push2.eastmoney.com"]

\* what the request of the market indices meets: "diff" an answer with rc 0
\* and the index list, "rc" an answer whose rc is not 0, "RequestException"
\* from session.get, "HTTPError" from raise_for_status, "data null" an answer
\* with rc 0 whose data is null
IndexOutcomes == {"diff", "rc", "RequestException", "HTTPError", "data null"}

\* get_real_time_market_indices that puts the headers back only when it
\* returns the list
get_real_time_market_indices_restore_on_return(self_headers, outcome) ==
    LET original_headers == self_headers
        updated == update(self_headers, EastMoneyHeaders)
    IN  IF outcome = "diff"
        THEN [exc |-> "None", val |-> "diff", sent |-> updated, headers |-> original_headers]
        ELSE [exc |-> IF outcome = "rc" THEN "Exception"
                      ELSE IF outcome = "data null" THEN "AttributeError" ELSE outcome,
              val |-> "None", sent |-> updated, headers |-> updated]

\* RealTimeDataSpider.get_real_time_market_indices: the result, the headers
\* the request was sent with and self.headers after the finally clause
get_real_time_market_indices(self_headers, outcome) ==
    LET original_headers == self_headers
        updated == update(self_headers, EastMoneyHeaders)
        exc == CASE outcome = "diff" -> "None"
                 [] outcome = "rc" -> "Exception"
                 [] outcome = "data null" -> "AttributeError"
                 [] OTHER -> outcome
    IN  [exc |-> exc, val |-> IF exc = "None" THEN "diff" ELSE "None",
         sent |-> updated, headers |-> original_headers]

\* what primary.get_real_time_data meets: the data, or an exception
PrimaryOutcomes == {"data", "Exception", "RequestException"}

\* what TushareDataSource.get_real_time_data meets: the quotes, no quotes, or
\* an exception of ts.get_realtime_quotes; the last two leave as
\* DataSourceError
SecondaryOutcomes == {"quotes", "empty", "Exception"}

\* HybridDataSource.get_real_time_data that asks the secondary source
\* whatever the primary answered
HybridDataSource_get_real_time_data_asks_both(self_secondary, p, s) ==
    IF self_secondary # "None"
    THEN IF s = "quotes"
         THEN [exc |-> "None", from |-> "secondary", val |-> "result",
               asked |-> <<"primary", "secondary">>, logged |-> <<"warning", "info">>]
         ELSE [exc |-> "DataSourceError", from |-> "secondary", val |-> "None",
               asked |-> <<"primary", "secondary">>,
               logged |-> <<"warning", "info", "error">>]
    ELSE [exc |-> IF p = "data" THEN "None" ELSE p, from |-> "primary",
          val |-> IF p = "data" THEN "data" ELSE "None", asked |-> <<"primary">>,
          logged |-> <<"warning", "warning">>]

\* HybridDataSource.get_real_time_data: p is what the primary source meets,
\* s what the secondary meets when it is asked
HybridDataSource_get_real_time_data(self_secondary, p, s) ==
    IF p = "data"
    THEN [exc |-> "None", from |-> "primary", val |-> "data",
          asked |-> <<"primary">>, logged |-> <<>>]
    ELSE IF self_secondary # "None"
         THEN IF s = "quotes"
              THEN [exc |-> "None", from |-> "secondary", val |-> "result",
                    asked |-> <<"primary", "secondary">>, logged |-> <<"warning", "info">>]
              ELSE [exc |-> "DataSourceError", from |-> "secondary", val |-> "None",
                    asked |-> <<"primary", "secondary">>,
                    logged |-> <<"warning", "info", "error">>]
         ELSE [exc |-> p, from |-> "primary", val |-> "None",
               asked |-> <<"primary">>, logged |-> <<"warning", "warning">>]

\* HybridDataSource.initialize: p_success and s_result are what
\* primary.initialize() and secondary.initialize() return
HybridDataSource_initialize(self_secondary, p_success, s_result) ==
    LET s_success == IF self_secondary # "None" THEN s_result ELSE TRUE
    IN  [exc |-> "None",
         val |-> ~(~p_success /\ ~s_success),
         asked |-> IF self_secondary # "None" THEN <<"primary", "secondary">>
                   ELSE <<"primary">>,
         logged |-> IF ~p_success /\ ~s_success THEN <<"error">>
                    ELSE IF ~p_success THEN <<"warning">> ELSE <<>>]

HasCrawler == active \in {"HybridDataSource", "WebCrawlerDataSource"}
HasTushare ==
    active = "TushareDataSource" \/ (active = "HybridDataSource" /\ secondary # "None")

\* active_data_source.initialize(): imported says whether the import in
\* WebCrawlerDataSource.initialize succeeds, s_ok whether
\* TushareDataSource.initialize does
ServerInitialize(imported, s_ok) ==
    /\ process.at = "initialize"
    /\ pc = "idle"
    /\ pc' = "done"
    /\ op' = [name |-> "initialize", impl |-> active, args |-> <<imported, s_ok>>]
    /\ out' = CASE active = "HybridDataSource" ->
                      HybridDataSource_initialize(secondary, imported, s_ok)
                [] active = "WebCrawlerDataSource" ->
                      [exc |-> "None", val |-> imported, asked |-> <<"primary">>,
                       logged |-> IF imported THEN <<"info">> ELSE <<"warning">>]
                [] active = "TushareDataSource" ->
                      [exc |-> "None", val |-> s_ok, asked |-> <<"secondary">>,
                       logged |-> IF s_ok THEN <<"info">> ELSE <<"error">>]
    /\ asked' = out'.asked
    /\ spider' = IF HasCrawler /\ imported THEN "EastMoneyKlineSpider" ELSE spider
    /\ searcher' = IF HasCrawler /\ imported THEN "StockSearcher" ELSE searcher
    /\ lifecycle' = IF HasCrawler /\ imported THEN "initialized" ELSE lifecycle
    /\ tushare_pro' = IF HasTushare /\ s_ok THEN "pro_api" ELSE tushare_pro
    /\ process' = [process EXCEPT !.at = IF entry = "sse" THEN "install" ELSE "run"]
    /\ UNCHANGED <<klines, bars, column, request_code, default_periods, remembered>>
    /\ UNCHANGED <<entry, active, secondary, headers>>

\* signal.signal(signal.SIGTERM, handle_sigterm) of sse.py
InstallHandler ==
    /\ process.at = "install"
    /\ process' = [process EXCEPT !.at = "run", !.handler = "handle_sigterm"]
    /\ UNCHANGED <<klines, bars, column, request_code, pc, op, out>>
    /\ UNCHANGED <<default_periods, remembered, spider, searcher, lifecycle>>
    /\ UNCHANGED <<entry, active, secondary, tushare_pro, asked, headers>>

\* the try statement is entered and app.run() called
StartRun ==
    /\ process.at = "run"
    /\ process' = [process EXCEPT !.at = "running"]
    /\ UNCHANGED <<klines, bars, column, request_code, pc, op, out>>
    /\ UNCHANGED <<default_periods, remembered, spider, searcher, lifecycle>>
    /\ UNCHANGED <<entry, active, secondary, tushare_pro, asked, headers>>

\* how app.run() ends of itself
Endings == {"return", "KeyboardInterrupt", "Exception"}

\* app.run() returns or raises: the except clauses log, the finally clause
\* is next
EndRun(how) ==
    /\ process.at = "running"
    /\ process' = [process EXCEPT !.at = "finally", !.ending = how]
    /\ UNCHANGED <<klines, bars, column, request_code, pc, op, out>>
    /\ UNCHANGED <<default_periods, remembered, spider, searcher, lifecycle>>
    /\ UNCHANGED <<entry, active, secondary, tushare_pro, asked, headers>>

\* active_data_source.cleanup(): WebCrawlerDataSource.cleanup sets spider and
\* searcher to None, TushareDataSource.cleanup is pass, HybridDataSource.cleanup
\* calls both
ActiveCleanup ==
    /\ spider' = IF HasCrawler THEN "None" ELSE spider
    /\ searcher' = IF HasCrawler THEN "None" ELSE searcher
    /\ lifecycle' = IF HasCrawler THEN "cleaned up" ELSE lifecycle
    /\ tushare_pro' = tushare_pro

\* the process receives SIGTERM while app.run() runs.  sse.py has installed
\* handle_sigterm, which calls cleanup() and sys.exit(0): SystemExit passes the
\* except clauses and the finally clause is next.  mcp_server.py installs no
\* handler: the default disposition ends the process at once.
Sigterm ==
    /\ process.at = "running"
    /\ IF process.handler = "handle_sigterm"
       THEN /\ ActiveCleanup
            /\ process' = [process EXCEPT !.at = "finally", !.ending = "SIGTERM",
                                          !.cleanups = @ + 1]
       ELSE /\ UNCHANGED <<spider, searcher, lifecycle, tushare_pro>>
            /\ process' = [process EXCEPT !.at = "killed", !.ending = "SIGTERM"]
    /\ UNCHANGED <<klines, bars, column, request_code, pc, op, out>>
    /\ UNCHANGED <<default_periods, remembered>>
    /\ UNCHANGED <<entry, active, secondary, asked, headers>>

\* the finally clause: cleanup(), then the process ends, with the exception
\* sse.py raised again or the SystemExit of handle_sigterm
Finally ==
    /\ process.at = "finally"
    /\ ActiveCleanup
    /\ process' = [process EXCEPT
                      !.at = "exited",
                      !.cleanups = @ + 1,
                      !.raised = CASE process.ending = "SIGTERM" -> "SystemExit"
                                   [] process.ending = "Exception" /\ entry = "sse" -> "Exception"
                                   [] OTHER -> "None"]
    /\ UNCHANGED <<klines, bars, column, request_code, pc, op, out>>
    /\ UNCHANGED <<default_periods, remembered>>
    /\ UNCHANGED <<entry, active, secondary, asked, headers>>

\* a tool asks the active data source for the real-time data of a symbol
GetRealTimeData(p, s) ==
    /\ process.at = "running"
    /\ pc = "idle"
    /\ pc' = "done"
    /\ op' = [name |-> "get_real_time_data", impl |-> active, args |-> <<p, s>>]
    /\ out' = CASE active = "HybridDataSource" ->
                      HybridDataSource_get_real_time_data(secondary, p, s)
                [] active = "WebCrawlerDataSource" ->
                      [exc |-> IF p = "data" THEN "None" ELSE p, from |-> "primary",
                       val |-> IF p = "data" THEN "data" ELSE "None",
                       asked |-> <<"primary">>, logged |-> <<>>]
                [] active = "TushareDataSource" ->
                      [exc |-> IF s = "quotes" THEN "None" ELSE "DataSourceError",
                       from |-> "secondary",
                       val |-> IF s = "quotes" THEN "result" ELSE "None",
                       asked |-> <<"secondary">>,
                       logged |-> IF s = "quotes" THEN <<>> ELSE <<"error">>]
    /\ asked' = out'.asked
    /\ UNCHANGED <<klines, bars, column, request_code, default_periods, remembered>>
    /\ UNCHANGED <<spider, searcher, lifecycle>>
    /\ UNCHANGED <<entry, active, secondary, tushare_pro, process, headers>>

\* a tool asks the spider for the market indices
GetRealTimeMarketIndices(outcome) ==
    /\ process.at = "running"
    /\ pc = "idle"
    /\ pc' = "done"
    /\ op' = [name |-> "get_real_time_market_indices", impl |-> "RealTimeDataSpider",
              args |-> <<outcome>>]
    /\ out' = get_real_time_market_indices(headers, outcome)
    /\ headers' = out'.headers
    /\ UNCHANGED <<klines, bars, column, request_code, default_periods, remembered>>
    /\ UNCHANGED <<spider, searcher, lifecycle>>
    /\ UNCHANGED <<entry, active, secondary, tushare_pro, process, asked>>

\* the data sources the entry points construct: sse.py by DATA_SOURCE
\* (hybrid with or without Tushare, crawler, tushare), mcp_server.py the
\* crawler
Configurations ==
    { <<"sse", "HybridDataSource", "TushareDataSource">>,
      <<"sse", "HybridDataSource", "None">>,
      <<"sse", "WebCrawlerDataSource", "None">>,
      <<"sse", "TushareDataSource", "None">>,
      <<"mcp_server", "WebCrawlerDataSource", "None">> }

\* an entry point with its data source constructed, before initialize()
InitServer ==
    /\ klines = <<>>
    /\ bars = <<>>
    /\ column = <<>>
    /\ request_code = <<>>
    /\ pc = "idle"
    /\ op = [name |-> "none", impl |-> "none", args |-> <<>>]
    /\ out = <<>>
    /\ default_periods = <<6, 12, 24>>
    /\ remembered = <<>>
    /\ spider = "None"
    /\ searcher = "None"
    /\ lifecycle = "constructed"
    /\ \E c \in Configurations : entry = c[1] /\ active = c[2] /\ secondary = c[3]
    /\ tushare_pro = "None"
    /\ process = [at |-> "initialize", ending |-> "none", handler |-> "SIG_DFL",
                  cleanups |-> 0, raised |-> "None"]
    /\ asked = <<>>
    /\ headers = RealTimeDataSpider_headers

NextServer ==
    \/ \E imported \in BOOLEAN, s_ok \in BOOLEAN : ServerInitialize(imported, s_ok)
    \/ InstallHandler
    \/ StartRun
    \/ \E p \in PrimaryOutcomes, s \in SecondaryOutcomes : GetRealTimeData(p, s)
    \/ \E outcome \in IndexOutcomes : GetRealTimeMarketIndices(outcome)
    \/ Finish
    \/ \E how \in Endings : EndRun(how)
    \/ Sigterm
    \/ Finally

\* a finally clause that is reached is executed
SpecServer == InitServer /\ [][NextServer]_vars /\ WF_vars(Finally)

----------------------------------------------------------------------------
(***************************************************************************)
(* Properties of the server, HybridDataSource and the spider                *)
(***************************************************************************)

HybridAnswered ==
    pc = "done" /\ op.name = "get_real_time_data" /\ op.impl = "HybridDataSource"

\* C25: HybridDataSource.get_real_time_data always asks the primary source
\* first and asks the secondary source only after the primary has raised: if
\* the primary succeeds its result is returned and the secondary is never
\* called; if the primary fails and the secondary succeeds the secondary's
\* result is returned; if both fail the secondary's error is raised; if the
\* primary fails and no secondary is configured the primary's error is raised.
C25_PrimaryFirstThenSecondary ==
    HybridAnswered =>
        LET p == op.args[1]
            s == op.args[2]
        IN  /\ Len(asked) >= 1 /\ asked[1] = "primary"
            /\ (\E i \in 1..Len(asked) : asked[i] = "secondary") =>
                   (asked = <<"primary", "secondary">> /\ p # "data" /\ secondary # "None")
            /\ p = "data" =>
                   (out.exc = "None" /\ out.from = "primary" /\ out.val = "data"
                    /\ asked = <<"primary">>)
            /\ (p # "data" /\ secondary # "None" /\ s = "quotes") =>
                   (out.exc = "None" /\ out.from = "secondary" /\ out.val = "result")
            /\ (p # "data" /\ secondary # "None" /\ s # "quotes") =>
                   (out.exc = "DataSourceError" /\ out.from = "secondary")
            /\ (p # "data" /\ secondary = "None") =>
                   (out.exc = p /\ out.from = "primary" /\ asked = <<"primary">>)

\* C25 happens: both sources were asked in turn, both failed, and the error
\* of the secondary source is what the caller gets
C25_Witness ==
    /\ HybridAnswered
    /\ op.args = <<"RequestException", "empty">>
    /\ asked = <<"primary", "secondary">>
    /\ out.exc = "DataSourceError" /\ out.from = "secondary"

\* C25 happens: the primary source answered and the secondary, though
\* configured, was not asked
C25_WitnessPrimaryOnly ==
    /\ HybridAnswered /\ secondary = "TushareDataSource"
    /\ op.args[1] = "data" /\ asked = <<"primary">> /\ out.from = "primary"

\* C27: RealTimeDataSpider.get_real_time_market_indices leaves the spider's
\* request headers equal to what they were before the call on every outcome:
\* when it returns the index list, when the HTTP request raises, and when the
\* response code rc is not 0.
C27_HeadersRestored ==
    [][(pc = "idle" /\ pc' = "done" /\ op'.name = "get_real_time_market_indices")
          => headers' = headers]_vars

\* C27 happens: the request went out with the headers of East Money, raised,
\* and the spider holds the headers of xueqiu.com again
C27_Witness ==
    /\ pc = "done" /\ op.name = "get_real_time_market_indices"
    /\ op.args = <<"RequestException">> /\ out.exc = "RequestException"
    /\ out.sent["Host"] = "push2.eastmoney.com"
    /\ out.sent # headers
    /\ headers["Host"] = "stock.xueqiu.com" /\ headers["Referer"] = "https://xueqiu.com/"

\* C27 happens: the same with an answer whose rc is not 0
C27_WitnessRc ==
    /\ pc = "done" /\ op.name = "get_real_time_market_indices"
    /\ op.args = <<"rc">> /\ out.exc = "Exception"
    /\ out.sent["Referer"] = "https://eastmoney.com/"
    /\ headers = RealTimeDataSpider_headers

RunEnded == process.at \in {"finally", "exited", "killed"}
CleanupCalled == process.cleanups >= 1

\* C28: in the server entry points, once the server run has started, every
\* way the run ends (normal return, KeyboardInterrupt, any other exception,
\* SIGTERM) is followed by at least one call to the active data source's
\* cleanup(), and calling cleanup() a second time on the same data source
\* raises nothing and leaves it in the same cleaned-up state.
C28_EveryEndIsFollowedByCleanup == RunEnded ~> CleanupCalled

\* what holds of C28: in sse.py every end of the run is followed by cleanup()
C28_SseEndIsFollowedByCleanup == (entry = "sse" /\ RunEnded) ~> CleanupCalled

\* what holds of C28: in mcp_server.py every end of the run other than
\* SIGTERM is followed by cleanup()
C28_McpServerEndIsFollowedByCleanup ==
    (entry = "mcp_server" /\ RunEnded /\ process.ending # "SIGTERM") ~> CleanupCalled

\* what holds of C28: the second cleanup() leaves the data source as the
\* first left it
C28_SecondCleanupSame ==
    [][(process.cleanups = 1 /\ process'.cleanups = 2) =>
          <<spider, searcher, lifecycle, tushare_pro>>' =
          <<spider, searcher, lifecycle, tushare_pro>>]_vars

\* C28 fails here: mcp_server.py has received SIGTERM, the process is gone and
\* cleanup() was never called
C28_KilledWithoutCleanupReached ==
    /\ entry = "mcp_server" /\ process.at = "killed" /\ process.ending = "SIGTERM"
    /\ process.cleanups = 0
    /\ lifecycle = "initialized" /\ spider = "EastMoneyKlineSpider"

\* cleanup() called twice: by handle_sigterm and by the finally clause
C28_CleanedTwiceReached ==
    /\ entry = "sse" /\ process.at = "exited" /\ process.cleanups = 2
    /\ process.raised = "SystemExit" /\ lifecycle = "cleaned up"

HybridInitialized ==
    pc = "done" /\ op.name = "initialize" /\ op.impl = "HybridDataSource"

\* C29: HybridDataSource.initialize always attempts to initialize every
\* configured source and returns True if and only if at least one configured
\* source (the primary, or the secondary when one is configured) initialized
\* successfully.
C29_TrueIffASourceInitialized ==
    HybridInitialized =>
        /\ asked = IF secondary # "None" THEN <<"primary", "secondary">> ELSE <<"primary">>
        /\ out.val <=> (op.args[1] \/ (secondary # "None" /\ op.args[2]))

\* what holds of C29: every configured source is attempted, a source that
\* initialized makes the result True, and with a secondary source the result
\* is True only if one of the two initialized
C29_AttemptsAllTrueWhenOneInitialized ==
    HybridInitialized =>
        /\ asked = IF secondary # "None" THEN <<"primary", "secondary">> ELSE <<"primary">>
        /\ (op.args[1] \/ (secondary # "None" /\ op.args[2])) => out.val
        /\ (secondary # "None" /\ out.val) => (op.args[1] \/ op.args[2])

\* C29 fails here: no secondary source, the primary did not initialize, and
\* initialize() returned True
C29_TrueWithNoSourceReached ==
    /\ HybridInitialized /\ secondary = "None"
    /\ ~op.args[1] /\ spider = "None" /\ lifecycle = "constructed"
    /\ out.val

====
